---- MODULE Spec2Model ----
(***************************************************************************)
(* A model of the summarization path of the YouTube summarizer extension:  *)
(* the streaming decoders of callOpenAI and callGemini (utils/api.js), the *)
(* port-proxied summarize of the content script / popup, and the           *)
(* background service worker that runs the provider call.                  *)
(*                                                                         *)
(* Text is modelled character by character: a JavaScript string is a       *)
(* sequence of one-character strings, and the HTTP body is a sequence of   *)
(* bytes (an ASCII byte is written as its character, the two bytes of a    *)
(* two-byte UTF-8 character as Utf8Lead and Utf8Cont).                     *)
(***************************************************************************)
EXTENDS Integers, Sequences, FiniteSets, TLC

(***************************************************************************)
(* Characters and the string methods the decoders use                      *)
(***************************************************************************)

\* The characters String.prototype.trim removes (those that occur here).
WhiteSpace == {" ", "\t", "\r", "\n"}

Digits == {"0", "1", "2", "3", "4", "5", "6", "7", "8", "9"}

\* s.substring(from) with a 0-based index, as JavaScript counts.
SubstringFrom(s, from) == SubSeq(s, from + 1, Len(s))

\* s.substring(from, to) with 0-based indices, to exclusive.
Substring(s, from, to) == SubSeq(s, from + 1, to)

\* s.startsWith(p)
StartsWith(s, p) == Len(s) >= Len(p) /\ SubSeq(s, 1, Len(p)) = p

RECURSIVE TrimStart(_)
TrimStart(s) ==
  IF s # <<>> /\ Head(s) \in WhiteSpace THEN TrimStart(Tail(s)) ELSE s

RECURSIVE TrimEnd(_)
TrimEnd(s) ==
  IF s # <<>> /\ s[Len(s)] \in WhiteSpace
    THEN TrimEnd(SubSeq(s, 1, Len(s) - 1))
    ELSE s

\* s.trim()
Trim(s) == TrimEnd(TrimStart(s))

\* The 1-based positions of s that hold a character of the set cs, ascending.
PositionsOf(s, cs) == SelectSeq([i \in 1..Len(s) |-> i], LAMBDA i : s[i] \in cs)

\* s.indexOf(c) for a single character c: 0-based, -1 when absent.
IndexOf(s, c) ==
  LET at == PositionsOf(s, {c}) IN IF at = <<>> THEN -1 ELSE at[1] - 1

\* s.split("\n"): the pieces between newlines; always at least one piece.
SplitLines(s) ==
  LET nl == PositionsOf(s, {"\n"}) IN
  [j \in 1..(Len(nl) + 1) |->
     SubSeq(s,
            IF j = 1 THEN 1 ELSE nl[j - 1] + 1,
            IF j = Len(nl) + 1 THEN Len(s) ELSE nl[j] - 1)]

\* The concatenation of a sequence of strings.
RECURSIVE Concat(_)
Concat(ss) == IF ss = <<>> THEN <<>> ELSE Head(ss) \o Concat(Tail(ss))

(***************************************************************************)
(* TextDecoder("utf-8").decode(value, {stream: true})                      *)
(*                                                                         *)
(* The decoder keeps the bytes of an unfinished character from one call to *)
(* the next.  Only one two-byte character occurs in the modelled bodies.   *)
(***************************************************************************)

Utf8Lead == "xC3"
Utf8Cont == "xA9"
Utf8Char == "e'"
Replacement == "xFFFD"

\* What the byte at position i of bytes decodes to: the character a complete
\* sequence stands for (at its lead byte), nothing ("") for the continuation
\* byte of a complete sequence and for a lead byte still waiting for its
\* continuation, the replacement character for a byte that fits nowhere.
DecodedAt(bytes, i) ==
  IF bytes[i] = Utf8Lead THEN
    IF i = Len(bytes) THEN ""
    ELSE IF bytes[i + 1] = Utf8Cont THEN Utf8Char ELSE Replacement
  ELSE IF bytes[i] = Utf8Cont THEN
    IF i > 1 /\ bytes[i - 1] = Utf8Lead THEN "" ELSE Replacement
  ELSE bytes[i]

\* decoder.decode(value, {stream: true}) with `pending` left by the call
\* before: the decoded text and the bytes still pending.
DecodeStream(pending, value) ==
  LET bytes == pending \o value IN
  [text |-> SelectSeq([i \in 1..Len(bytes) |-> DecodedAt(bytes, i)],
                      LAMBDA ch : ch # ""),
   pending |-> IF bytes # <<>> /\ bytes[Len(bytes)] = Utf8Lead
                 THEN <<Utf8Lead>> ELSE <<>>]

\* The UTF-8 bytes of a string (what the provider's server sends).
RECURSIVE Utf8Encode(_)
Utf8Encode(s) ==
  IF s = <<>> THEN <<>>
  ELSE (IF Head(s) = Utf8Char THEN <<Utf8Lead, Utf8Cont>> ELSE <<Head(s)>>)
       \o Utf8Encode(Tail(s))

(***************************************************************************)
(* JSON.parse and the JavaScript values it yields                          *)
(*                                                                         *)
(* A value is [t, s, kids]: t its type, s the characters of a string or a  *)
(* number, kids the members [k, v] of an object or the elements of an      *)
(* array.  The grammar covers objects, arrays, strings with the simple     *)
(* backslash escapes, unsigned integers and the three literals; white      *)
(* space is allowed where JSON allows it.                                  *)
(***************************************************************************)

JsValue(type, chars, children) == [t |-> type, s |-> chars, kids |-> children]

Undefined == JsValue("undef", <<>>, <<>>)
JsNull == JsValue("null", <<>>, <<>>)
JsString(chars) == JsValue("str", chars, <<>>)

\* The character at 1-based position i, "" past the end.
At(s, i) == IF i >= 1 /\ i <= Len(s) THEN s[i] ELSE ""

RECURSIVE SkipWs(_, _)
SkipWs(s, i) == IF At(s, i) \in WhiteSpace THEN SkipWs(s, i + 1) ELSE i

ParseFail == [ok |-> FALSE, v |-> Undefined, i |-> 0]
ParseOk(value, next) == [ok |-> TRUE, v |-> value, i |-> next]

\* The character a backslash escape stands for, "" for an escape not modelled.
Unescape(c) ==
  CASE c = "\"" -> "\""
    [] c = "\\" -> "\\"
    [] c = "/" -> "/"
    [] c = "n" -> "\n"
    [] c = "t" -> "\t"
    [] c = "r" -> "\r"
    [] OTHER -> ""

\* The characters of a string literal, i the position after its opening quote.
RECURSIVE ParseStringBody(_, _, _)
ParseStringBody(s, i, acc) ==
  LET c == At(s, i) IN
  IF c = "" \/ c \in {"\n", "\t", "\r"} THEN ParseFail
  ELSE IF c = "\"" THEN ParseOk(JsString(acc), i + 1)
  ELSE IF c = "\\" THEN
    IF Unescape(At(s, i + 1)) = "" THEN ParseFail
    ELSE ParseStringBody(s, i + 2, Append(acc, Unescape(At(s, i + 1))))
  ELSE ParseStringBody(s, i + 1, Append(acc, c))

RECURSIVE ParseDigits(_, _, _)
ParseDigits(s, i, acc) ==
  IF At(s, i) \in Digits THEN ParseDigits(s, i + 1, Append(acc, s[i]))
  ELSE ParseOk(JsValue("num", acc, <<>>), i)

ParseLiteral(s, i, word, value) ==
  IF SubSeq(s, i, i + Len(word) - 1) = word
    THEN ParseOk(value, i + Len(word))
    ELSE ParseFail

RECURSIVE ParseValue(_, _)
RECURSIVE ParseMembers(_, _, _)
RECURSIVE ParseElements(_, _, _)

\* The members of an object, i the position of the next member's key.
ParseMembers(s, i, acc) ==
  IF At(s, i) # "\"" THEN ParseFail
  ELSE
    LET key == ParseStringBody(s, i + 1, <<>>) IN
    IF ~key.ok THEN ParseFail
    ELSE
      LET colon == SkipWs(s, key.i) IN
      IF At(s, colon) # ":" THEN ParseFail
      ELSE
        LET val == ParseValue(s, SkipWs(s, colon + 1)) IN
        IF ~val.ok THEN ParseFail
        ELSE
          LET next == SkipWs(s, val.i)
              members == Append(acc, [k |-> key.v.s, v |-> val.v])
          IN  IF At(s, next) = "," THEN ParseMembers(s, SkipWs(s, next + 1), members)
              ELSE IF At(s, next) = "}" THEN ParseOk(JsValue("obj", <<>>, members), next + 1)
              ELSE ParseFail

\* The elements of an array, i the position of the next element.
ParseElements(s, i, acc) ==
  LET val == ParseValue(s, i) IN
  IF ~val.ok THEN ParseFail
  ELSE
    LET next == SkipWs(s, val.i)
        elements == Append(acc, val.v)
    IN  IF At(s, next) = "," THEN ParseElements(s, SkipWs(s, next + 1), elements)
        ELSE IF At(s, next) = "]" THEN ParseOk(JsValue("arr", <<>>, elements), next + 1)
        ELSE ParseFail

ParseValue(s, i) ==
  LET c == At(s, i) IN
  CASE c = "{" ->
         (LET j == SkipWs(s, i + 1) IN
          IF At(s, j) = "}" THEN ParseOk(JsValue("obj", <<>>, <<>>), j + 1)
          ELSE ParseMembers(s, j, <<>>))
    [] c = "[" ->
         (LET j == SkipWs(s, i + 1) IN
          IF At(s, j) = "]" THEN ParseOk(JsValue("arr", <<>>, <<>>), j + 1)
          ELSE ParseElements(s, j, <<>>))
    [] c = "\"" -> ParseStringBody(s, i + 1, <<>>)
    [] c = "0" -> ParseOk(JsValue("num", <<"0">>, <<>>), i + 1)
    [] c \in Digits \ {"0"} -> ParseDigits(s, i, <<>>)
    [] c = "n" -> ParseLiteral(s, i, <<"n", "u", "l", "l">>, JsNull)
    [] c = "t" -> ParseLiteral(s, i, <<"t", "r", "u", "e">>, JsValue("true", <<>>, <<>>))
    [] c = "f" -> ParseLiteral(s, i, <<"f", "a", "l", "s", "e">>, JsValue("false", <<>>, <<>>))
    [] OTHER -> ParseFail

\* JSON.parse(s): ok is FALSE where JSON.parse throws a SyntaxError.
JsonParse(s) ==
  LET Whole(r) == IF r.ok /\ SkipWs(s, r.i) = Len(s) + 1 THEN r ELSE ParseFail
  IN  Whole(ParseValue(s, SkipWs(s, 1)))

\* v is null or undefined: a property read of it throws a TypeError, and an
\* optional chain (?.) on it yields undefined.
Nullish(v) == v.t \in {"undef", "null"}

\* The value of an own property of an object: the last member of that name.
RECURSIVE LookupMember(_, _, _)
LookupMember(members, key, found) ==
  IF members = <<>> THEN found
  ELSE LookupMember(Tail(members), key,
                    IF Head(members).k = key THEN Head(members).v ELSE found)

\* v.key for a v that is not nullish (none of the keys read here is a
\* property of a string, a number, a boolean or an array).
GetProp(v, key) ==
  IF v.t = "obj" THEN LookupMember(v.kids, key, Undefined) ELSE Undefined

\* v[0] for a v that is not nullish.
GetIndex0(v) ==
  CASE v.t = "arr" -> IF v.kids = <<>> THEN Undefined ELSE v.kids[1]
    [] v.t = "str" -> IF v.s = <<>> THEN Undefined ELSE JsString(<<v.s[1]>>)
    [] v.t = "obj" -> LookupMember(v.kids, <<"0">>, Undefined)
    [] OTHER -> Undefined

\* v?.key and v?.[0]
OptProp(v, key) == IF Nullish(v) THEN Undefined ELSE GetProp(v, key)
OptIndex0(v) == IF Nullish(v) THEN Undefined ELSE GetIndex0(v)

\* Whether v counts as true in a condition and on the left of ||.
Truthy(v) ==
  CASE v.t \in {"undef", "null", "false"} -> FALSE
    [] v.t = "str" -> v.s # <<>>
    [] v.t = "num" -> v.s # <<"0">>
    [] OTHER -> TRUE

\* String(v), what += appends for a value that is not a string.
RECURSIVE JsToString(_)
RECURSIVE JoinElements(_)
JoinElements(vs) ==
  IF vs = <<>> THEN <<>>
  ELSE (IF Nullish(Head(vs)) THEN <<>> ELSE JsToString(Head(vs)))
       \o (IF Len(vs) > 1 THEN <<",">> \o JoinElements(Tail(vs)) ELSE <<>>)
JsToString(v) ==
  CASE v.t \in {"str", "num"} -> v.s
    [] v.t = "true" -> <<"t", "r", "u", "e">>
    [] v.t = "arr" -> JoinElements(v.kids)
    [] v.t = "obj" -> <<"[", "o", "b", "j", "e", "c", "t", " ", "O", "b", "j", "e", "c", "t", "]">>
    [] OTHER -> <<>>

(***************************************************************************)
(* The streaming branch of callOpenAI: what one chunk does                 *)
(***************************************************************************)

DataPrefix == <<"d", "a", "t", "a", ":", " ">>
DoneSentinel == <<"[", "D", "O", "N", "E", "]">>
KeyChoices == <<"c", "h", "o", "i", "c", "e", "s">>
KeyDelta == <<"d", "e", "l", "t", "a">>
KeyContent == <<"c", "o", "n", "t", "e", "n", "t">>

\* data.choices[0]?.delta?.content || "": threw where the expression raises
\* a TypeError (data is null, or data.choices is null or undefined).
OpenAIContent(data) ==
  LET OrEmpty(content) == IF Truthy(content) THEN content ELSE JsString(<<>>)
      FromChoices(choices) ==
        IF Nullish(choices) THEN [threw |-> TRUE, content |-> Undefined]
        ELSE [threw |-> FALSE,
              content |-> OrEmpty(OptProp(OptProp(GetIndex0(choices), KeyDelta),
                                          KeyContent))]
  IN  IF Nullish(data) THEN [threw |-> TRUE, content |-> Undefined]
      ELSE FromChoices(GetProp(data, KeyChoices))

\* fullContent += content; onChunk(content).  The decoder's working state d
\* is [fullContent, emitted, sawDone, threw]: emitted lists the arguments of
\* the onChunk calls made so far.
MutEmitNoAccumulate(d, content) ==
  [d EXCEPT !.emitted = Append(@, JsToString(content))]
Emit(d, content) ==
  [d EXCEPT !.fullContent = @ \o JsToString(content),
            !.emitted = Append(@, JsToString(content))]

\* The catch block around the parse of one data line: the error is dropped.
MutRethrow(d) == [d EXCEPT !.threw = TRUE]
IgnoreParseError(d) == d

\* The body of the try block for the payload of one data line.
ParseDataLine(d, dataStr) ==
  LET Use(got) ==
        IF got.threw THEN IgnoreParseError(d)
        ELSE IF Truthy(got.content) THEN Emit(d, got.content)
        ELSE d
      Parsed(data) == IF ~data.ok THEN IgnoreParseError(d) ELSE Use(OpenAIContent(data.v))
  IN  Parsed(JsonParse(dataStr))

\* What `break` does at the [DONE] line: it leaves the loop over the lines
\* of this chunk.  (sawDone only records that the line was seen.)
BreakAtDone(rest) == <<>>

\* for (const line of lines) { ... }
RECURSIVE ProcessLines(_, _)
ProcessLines(d, lines) ==
  LET Data(dataStr) ==
        IF dataStr = DoneSentinel
          THEN ProcessLines([d EXCEPT !.sawDone = TRUE], BreakAtDone(Tail(lines)))
          ELSE ProcessLines(ParseDataLine(d, dataStr), Tail(lines))
      Line(trimmedLine) ==
        IF trimmedLine = <<>> THEN ProcessLines(d, Tail(lines))
        ELSE IF StartsWith(trimmedLine, DataPrefix)
          THEN Data(Trim(SubstringFrom(trimmedLine, 6)))
        ELSE ProcessLines(d, Tail(lines))
  IN  IF lines = <<>> \/ d.threw THEN d ELSE Line(Trim(Head(lines)))

\* buffer = lines.pop(): the text after the last newline is kept.
MutDropPartialLine(lines) == <<>>
MutKeepParsedLine(lines) ==
  IF Len(lines) >= 2 THEN lines[Len(lines) - 1] \o <<"\n">> \o lines[Len(lines)]
  ELSE lines[Len(lines)]
HeldBack(lines) == lines[Len(lines)]

\* lines after lines.pop(): the lines the for loop goes through.
MutParseAll(lines) == lines
Popped(lines) == SubSeq(lines, 1, Len(lines) - 1)

\* One turn of the while loop of callOpenAI for a chunk `value`; c is the
\* call's record.
OpenAIChunk(c, value) ==
  LET After(pending, buffer, d) ==
        [c EXCEPT !.pending = pending,
                  !.buffer = buffer,
                  !.fullContent = d.fullContent,
                  !.emitted = d.emitted,
                  !.sawDone = d.sawDone,
                  !.threw = d.threw]
      Lines(pending, lines) ==
        After(pending, HeldBack(lines),
              ProcessLines([fullContent |-> c.fullContent, emitted |-> c.emitted,
                            sawDone |-> c.sawDone, threw |-> FALSE],
                           Popped(lines)))
      Decoded(decoded) == Lines(decoded.pending, SplitLines(c.buffer \o decoded.text))
  IN  Decoded(DecodeStream(c.pending, value))

(***************************************************************************)
(* The provider's side: the bytes of a streamed response                   *)
(*                                                                         *)
(* A response is described by its events, [kind, text], and encoded as the *)
(* provider's server encodes it (sections 6 of the interface description:  *)
(* `data: ` lines ended by `data: [DONE]` for OpenAI, a JSON array of      *)
(* {candidates:[{content:{parts:[{text}]}}]} objects for Gemini).          *)
(***************************************************************************)

Event(kind, text) == [kind |-> kind, text |-> text]

\* JSON.stringify of the characters of a string, without the quotes.
RECURSIVE EscapeJson(_)
EscapeJson(s) ==
  IF s = <<>> THEN <<>>
  ELSE (CASE Head(s) = "\"" -> <<"\\", "\"">>
          [] Head(s) = "\\" -> <<"\\", "\\">>
          [] Head(s) = "\n" -> <<"\\", "n">>
          [] Head(s) = "\r" -> <<"\\", "r">>
          [] Head(s) = "\t" -> <<"\\", "t">>
          [] OTHER -> <<Head(s)>>)
       \o EscapeJson(Tail(s))

\* {"choices":[{"delta":{"content":"
OpenAIPayloadHead ==
  <<"{", "\"", "c", "h", "o", "i", "c", "e", "s", "\"", ":", "[", "{", "\"",
    "d", "e", "l", "t", "a", "\"", ":", "{", "\"", "c", "o", "n", "t", "e",
    "n", "t", "\"", ":", "\"">>

\* "}}]}
OpenAIPayloadTail ==
  <<"\"", "}", "}", "]", "}">>

\* {"choices":[{"delta":
OpenAITruncatedPayload ==
  <<"{", "\"", "c", "h", "o", "i", "c", "e", "s", "\"", ":", "[", "{", "\"",
    "d", "e", "l", "t", "a", "\"", ":">>

\* {"id":"x"}
OpenAINoChoicesPayload ==
  <<"{", "\"", "i", "d", "\"", ":", "\"", "x", "\"", "}">>

\* : ping
SseComment ==
  <<":", " ", "p", "i", "n", "g">>

\* The text of one event of an OpenAI stream, line ends included.
OpenAIEventText(e) ==
  CASE e.kind = "content" ->
         DataPrefix \o OpenAIPayloadHead \o EscapeJson(e.text) \o OpenAIPayloadTail
           \o <<"\n", "\n">>
    [] e.kind = "crlf" ->
         DataPrefix \o OpenAIPayloadHead \o EscapeJson(e.text) \o OpenAIPayloadTail
           \o <<"\r", "\n", "\r", "\n">>
    [] e.kind = "malformed" -> DataPrefix \o OpenAITruncatedPayload \o <<"\n", "\n">>
    [] e.kind = "nochoices" -> DataPrefix \o OpenAINoChoicesPayload \o <<"\n", "\n">>
    [] e.kind = "null" -> DataPrefix \o <<"n", "u", "l", "l">> \o <<"\n", "\n">>
    [] e.kind = "comment" -> SseComment \o <<"\n", "\n">>
    [] e.kind = "done" -> DataPrefix \o DoneSentinel \o <<"\n", "\n">>
    [] e.kind = "unterminated" ->
         DataPrefix \o OpenAIPayloadHead \o EscapeJson(e.text) \o OpenAIPayloadTail

\* The bytes of an OpenAI response body.
RECURSIVE OpenAIBody(_)
OpenAIBody(events) ==
  IF events = <<>> THEN <<>>
  ELSE Utf8Encode(OpenAIEventText(Head(events))) \o OpenAIBody(Tail(events))

(***************************************************************************)
(* The error path of callOpenAI and callGemini (response.ok is false)      *)
(***************************************************************************)

KeyError == <<"e", "r", "r", "o", "r">>
KeyMessage == <<"m", "e", "s", "s", "a", "g", "e">>

\* "OpenAI" and "Gemini", as the generic messages spell the providers.
ProviderName(provider) ==
  IF provider = "openai" THEN <<"O", "p", "e", "n", "A", "I">>
  ELSE <<"G", "e", "m", "i", "n", "i">>

\* " API error: "
ApiErrorText ==
  <<" ", "A", "P", "I", " ", "e", "r", "r", "o", "r", ":", " ">>

\* `<Provider> API error: <status>`, status given by its digits.
GenericMessage(provider, status) == ProviderName(provider) \o ApiErrorText \o status

\* The message of the TypeError that reading a property of null raises.
NullReadMessage ==
  <<"C", "a", "n", "n", "o", "t", " ", "r", "e", "a", "d", " ", "p", "r",
    "o", "p", "e", "r", "t", "i", "e", "s", " ", "o", "f", " ", "n", "u",
    "l", "l", " ", "(", "r", "e", "a", "d", "i", "n", "g", " ", "'", "e",
    "r", "r", "o", "r", "'", ")">>

\* The message of the error a failed fetch or read rejects with.
NetworkMessage ==
  <<"F", "a", "i", "l", "e", "d", " ", "t", "o", " ", "f", "e", "t", "c",
    "h">>

\* await response.json().catch(() => ({})): the parsed body, {} when the
\* body is not JSON.
ErrorData(body) ==
  LET OrEmptyObject(parsed) == IF parsed.ok THEN parsed.v ELSE JsValue("obj", <<>>, <<>>)
  IN  OrEmptyObject(JsonParse(body))

\* The message of the Error thrown for a response that is not ok:
\* errorData.error?.message || `<Provider> API error: <status>`.
ErrorMessage(provider, status, body) ==
  LET OrGeneric(message) ==
        IF Truthy(message) THEN JsToString(message)
        ELSE GenericMessage(provider, status)
      Of(errorData) ==
        IF Nullish(errorData) THEN NullReadMessage
        ELSE OrGeneric(OptProp(GetProp(errorData, KeyError), KeyMessage))
  IN  Of(ErrorData(body))

(***************************************************************************)
(* The streaming branch of callGemini: what one chunk does                 *)
(***************************************************************************)

KeyCandidates == <<"c", "a", "n", "d", "i", "d", "a", "t", "e", "s">>
KeyParts == <<"p", "a", "r", "t", "s">>
KeyText == <<"t", "e", "x", "t">>

\* v?.content?.parts?.[0]?.text
ContentPartsText(v) ==
  OptProp(OptIndex0(OptProp(OptProp(v, KeyContent), KeyParts)), KeyText)

\* data.candidates?.[0]?.content?.parts?.[0]?.text ||
\* data.content?.parts?.[0]?.text || ""
GeminiContent(data) ==
  LET Or(first, second) ==
        IF Truthy(first) THEN first
        ELSE IF Truthy(second) THEN second
        ELSE JsString(<<>>)
  IN  IF Nullish(data) THEN [threw |-> TRUE, content |-> Undefined]
      ELSE [threw |-> FALSE,
            content |-> Or(ContentPartsText(OptIndex0(GetProp(data, KeyCandidates))),
                           ContentPartsText(data))]

\* The catch block around the parse of one brace-balanced span: the error is
\* logged (console.error) and dropped.
LogParseError(d) == d

\* The body of the try block for one brace-balanced span.
ParseSpan(d, jsonStr) ==
  LET Use(got) ==
        IF got.threw THEN LogParseError(d)
        ELSE IF Truthy(got.content) THEN Emit(d, got.content)
        ELSE d
      Parsed(data) == IF ~data.ok THEN LogParseError(d) ELSE Use(GeminiContent(data.v))
  IN  Parsed(JsonParse(jsonStr))

\* The for loop over the buffer up to the first span it completes.  The
\* loop changes braceCount and startIndex at braces only, so it is followed
\* from brace to brace: braces lists the positions of the braces, k is the
\* next of them.  The result is the span found (0-based startIndex and i),
\* if any.
RECURSIVE ScanBraces(_, _, _, _, _)
ScanBraces(buffer, braces, k, braceCount, startIndex) ==
  IF k > Len(braces) THEN [found |-> FALSE, startIndex |-> startIndex, i |-> -1]
  ELSE
    LET i == braces[k] - 1 IN
    IF buffer[braces[k]] = "{"
      THEN ScanBraces(buffer, braces, k + 1, braceCount + 1,
                      IF braceCount = 0 THEN i ELSE startIndex)
    ELSE IF braceCount - 1 = 0 /\ startIndex # -1
      THEN [found |-> TRUE, startIndex |-> startIndex, i |-> i]
    ELSE ScanBraces(buffer, braces, k + 1, braceCount - 1, startIndex)

\* The buffer after a span: past a comma or a closing bracket that follows it.
AfterSpan(rest) ==
  IF StartsWith(Trim(rest), <<",">>) THEN SubstringFrom(rest, IndexOf(rest, ",") + 1)
  ELSE IF StartsWith(Trim(rest), <<"]">>) THEN SubstringFrom(rest, IndexOf(rest, "]") + 1)
  ELSE rest

\* The for loop with its restarts (i = -1): every span completed in the
\* buffer is parsed and cut off, and the scan starts again on what is left.
RECURSIVE ScanBuffer(_, _)
ScanBuffer(d, buffer) ==
  LET Found(hit) ==
        IF ~hit.found \/ d.threw THEN [d |-> d, buffer |-> buffer]
        ELSE ScanBuffer(ParseSpan(d, Substring(buffer, hit.startIndex, hit.i + 1)),
                        AfterSpan(SubstringFrom(buffer, hit.i + 1)))
  IN  Found(ScanBraces(buffer, PositionsOf(buffer, {"{", "}"}), 1, 0, -1))

\* The buffers the for loop is (re)started on for one chunk: the buffer
\* the scan begins with and, for every `i = -1`, the buffer as cut then.
MutRestartUncut(d, buffer) ==
  IF ScanBraces(buffer, PositionsOf(buffer, {"{", "}"}), 1, 0, -1).found
    THEN <<buffer, buffer>> ELSE <<buffer>>
RECURSIVE ScanRestarts(_, _)
ScanRestarts(d, buffer) ==
  LET Found(hit) ==
        IF ~hit.found \/ d.threw THEN <<buffer>>
        ELSE <<buffer>>
             \o ScanRestarts(ParseSpan(d, Substring(buffer, hit.startIndex, hit.i + 1)),
                             AfterSpan(SubstringFrom(buffer, hit.i + 1)))
  IN  Found(ScanBraces(buffer, PositionsOf(buffer, {"{", "}"}), 1, 0, -1))

\* The leading "[" and the leading "," are cut off the buffer before the scan.
StripLeading(buffer) ==
  LET afterBracket ==
        IF StartsWith(Trim(buffer), <<"[">>)
          THEN [sanitized |-> Trim(SubstringFrom(Trim(buffer), 1)),
                buffer |-> SubstringFrom(buffer, IndexOf(buffer, "[") + 1)]
          ELSE [sanitized |-> Trim(buffer), buffer |-> buffer]
  IN  IF StartsWith(afterBracket.sanitized, <<",">>)
        THEN SubstringFrom(afterBracket.buffer, IndexOf(afterBracket.buffer, ",") + 1)
        ELSE afterBracket.buffer

\* One turn of the while loop of callGemini for a chunk `value`.
GeminiChunk(c, value) ==
  LET After(pending, scanned) ==
        [c EXCEPT !.pending = pending,
                  !.buffer = scanned.buffer,
                  !.fullContent = scanned.d.fullContent,
                  !.emitted = scanned.d.emitted,
                  !.threw = scanned.d.threw]
      Decoded(decoded) ==
        After(decoded.pending,
              ScanBuffer([fullContent |-> c.fullContent, emitted |-> c.emitted,
                          sawDone |-> c.sawDone, threw |-> FALSE],
                         StripLeading(c.buffer \o decoded.text)))
  IN  Decoded(DecodeStream(c.pending, value))

\* {"candidates":[{"content":{"parts":[{"text":"
GeminiElementHead ==
  <<"{", "\"", "c", "a", "n", "d", "i", "d", "a", "t", "e", "s", "\"", ":",
    "[", "{", "\"", "c", "o", "n", "t", "e", "n", "t", "\"", ":", "{", "\"",
    "p", "a", "r", "t", "s", "\"", ":", "[", "{", "\"", "t", "e", "x", "t",
    "\"", ":", "\"">>

\* "}]}}]}
GeminiElementTail ==
  <<"\"", "}", "]", "}", "}", "]", "}">>

\* {"candidates":[{"content":}]}
GeminiMalformedSpan ==
  <<"{", "\"", "c", "a", "n", "d", "i", "d", "a", "t", "e", "s", "\"", ":",
    "[", "{", "\"", "c", "o", "n", "t", "e", "n", "t", "\"", ":", "}", "]",
    "}">>

\* The text of one element of a Gemini stream.
GeminiEventText(e) ==
  CASE e.kind = "text" -> GeminiElementHead \o EscapeJson(e.text) \o GeminiElementTail
    [] e.kind = "malformed" -> GeminiMalformedSpan

\* The elements with their separators, ",\r\n" between two of them.
RECURSIVE GeminiElements(_)
GeminiElements(events) ==
  IF events = <<>> THEN <<>>
  ELSE Utf8Encode(GeminiEventText(Head(events)))
       \o (IF Len(events) > 1 THEN <<"\n", ",", "\r", "\n">> ELSE <<>>)
       \o GeminiElements(Tail(events))

\* The bytes of a Gemini response body: the array of the elements.
GeminiBody(events) == <<"[">> \o GeminiElements(events) \o <<"\n", "]">>

(***************************************************************************)
(* The request callOpenAI and callGemini build                             *)
(***************************************************************************)

\* transcript.length > 15000
OpenAILimit == 15000

\* transcript.length > 30000
GeminiLimit == 30000

\* "...[truncated]"
TruncationMarker ==
  <<".", ".", ".", "[", "t", "r", "u", "n", "c", "a", "t", "e", "d", "]">>

\* transcript.length > limit ? transcript.substring(0, limit) +
\* "...[truncated]" : transcript
MutTruncateOffByOne(transcript, limit) ==
  IF Len(transcript) >= limit
    THEN Substring(transcript, 0, limit) \o TruncationMarker
    ELSE transcript
Truncate(transcript, limit) ==
  IF Len(transcript) > limit
    THEN Substring(transcript, 0, limit) \o TruncationMarker
    ELSE transcript

\* const truncatedTranscript = ...
TruncatedTranscript(provider, transcript) ==
  IF provider = "openai" THEN Truncate(transcript, OpenAILimit)
  ELSE Truncate(transcript, GeminiLimit)

\* "chat/completions"
ChatCompletions ==
  <<"c", "h", "a", "t", "/", "c", "o", "m", "p", "l", "e", "t", "i", "o",
    "n", "s">>

\* "streamGenerateContent"
StreamGenerateContent ==
  <<"s", "t", "r", "e", "a", "m", "G", "e", "n", "e", "r", "a", "t", "e",
    "C", "o", "n", "t", "e", "n", "t">>

\* "generateContent"
GenerateContent ==
  <<"g", "e", "n", "e", "r", "a", "t", "e", "C", "o", "n", "t", "e", "n",
    "t">>

\* The stream flag of the request body of callOpenAI: stream: !!onChunk.
StreamFlag(streaming) == streaming

\* The last part of the URL's path: for Gemini it is
\* onChunk ? "streamGenerateContent" : "generateContent".
Method(provider, streaming) ==
  IF provider = "openai" THEN ChatCompletions
  ELSE IF StreamFlag(streaming) THEN StreamGenerateContent
  ELSE GenerateContent

\* What of the request depends on the call's arguments: the stream flag
\* (in the body for OpenAI, in the method for Gemini), the method, and the
\* transcript interpolated into the prompt.
Request(provider, streaming, transcript) ==
  [stream |-> StreamFlag(streaming),
   method |-> Method(provider, streaming),
   transcript |-> TruncatedTranscript(provider, transcript)]

(***************************************************************************)
(* The state                                                               *)
(*                                                                         *)
(* calls: the provider calls (callOpenAI / callGemini with an onChunk),    *)
(* each with its own locals.  Of a call: pc is where it stands (idle: not  *)
(* started; fetch: the request is out; read: in the while loop, awaiting   *)
(* reader.read(); returned / rejected: settled), body the bytes the        *)
(* transport has not delivered yet, pending / buffer / fullContent the     *)
(* locals of the streaming branch, emitted the arguments of its onChunk    *)
(* calls in order; proxied tells that the call was started by the          *)
(* background's port listener, whose onChunk posts to the port, and        *)
(* reported that the listener has posted the call's outcome.  events,      *)
(* status, errorBody, sawDone, threw and carried (a chunk ended with text  *)
(* left in the buffer or in the decoder) record what the call was given    *)
(* and met; the code does not read them.                                   *)
(*                                                                         *)
(* port: the summarize-stream port between a page and the background: open *)
(* while neither end has disconnected, toBg and toClient the messages      *)
(* posted and not yet delivered, lost set once the page's end has been     *)
(* told that the other end is gone.                                        *)
(*                                                                         *)
(* client: the promise of the proxied streaming summarize in the page: pc  *)
(* (idle, pending, resolved, rejected), its local fullText, the value or   *)
(* the error message it settled with, received the arguments of the        *)
(* caller's onChunk in order, hangUp set once it has called                *)
(* port.disconnect(); onChunk tells whether the caller supplied a fragment *)
(* callback (without one summarize uses chrome.runtime.sendMessage, and    *)
(* port then stands for that message's channel).                           *)
(*                                                                         *)
(* Of a call, further: streaming tells whether it was given an onChunk,    *)
(* transcript is the transcript it was given, request the request its      *)
(* fetch sent and requests the number of fetches it has issued.            *)
(*                                                                         *)
(* store: chrome.storage.sync and the settings handlers of the popup.      *)
(* ui: a page with a summarize button, and the YouTube page it works on.   *)
(***************************************************************************)

VARIABLES calls, port, client, store, ui

vars == <<calls, port, client, store, ui>>

\* The variables of the pages' settings and summarize buttons.
pageVars == <<store, ui>>

CallIds == {"A", "B"}

\* Before a fetch: no request.
NoRequest == [stream |-> FALSE, method |-> <<>>, transcript |-> <<>>]

NoCall ==
  [provider |-> "none", proxied |-> FALSE, streaming |-> TRUE,
   transcript |-> <<>>, request |-> NoRequest, requests |-> 0,
   pc |-> "idle", events |-> <<>>,
   body |-> <<>>, pending |-> <<>>, buffer |-> <<>>, fullContent |-> <<>>,
   emitted |-> <<>>, sawDone |-> FALSE, threw |-> FALSE, carried |-> FALSE,
   status |-> <<>>, errorBody |-> <<>>, result |-> <<>>, error |-> <<>>,
   reported |-> FALSE]

NoPort == [open |-> FALSE, toBg |-> <<>>, toClient |-> <<>>, lost |-> FALSE]

NoClient ==
  [pc |-> "idle", onChunk |-> TRUE, fullText |-> <<>>, received |-> <<>>,
   value |-> <<>>, error |-> <<>>, hangUp |-> FALSE]

\* A connection.  An empty baseUrl or model stands for the provider's
\* default, which getProviderConfig puts in its place.
Connection(id, provider, apiKey) ==
  [id |-> id, provider |-> provider, apiKey |-> apiKey, baseUrl |-> "", model |-> ""]

\* A prompt profile.
Prompt(id, content) == [id |-> id, content |-> content]

\* What chrome.storage.sync holds before anything is saved: no connections,
\* no activeConnectionId, no prompts and no activePromptId (an unset key
\* reads as its default), no keys of the legacy format (openai, gemini,
\* provider, systemPrompt).
FreshStorage ==
  [connections |-> [set |-> FALSE, value |-> <<>>],
   activeConnectionId |-> "",
   prompts |-> [set |-> FALSE, value |-> <<>>],
   activePromptId |-> "",
   openai |-> [set |-> FALSE, apiKey |-> ""],
   gemini |-> [set |-> FALSE, apiKey |-> ""],
   provider |-> "",
   systemPrompt |-> ""]

NoConfig == [provider |-> "", apiKey |-> "", baseUrl |-> "", model |-> ""]

\* No handler of the popup is running.  Of a handler: kind is the handler,
\* pc where it stands, connectionId, connections and activeConnectionId
\* its locals (what it will save), stored the number of connections
\* storage held when it read the settings, removed whether it has saved a
\* list it took a connection from, config what getProviderConfig returned;
\* promptId, prompts and activePromptId are its locals for the prompts.
NoOp ==
  [kind |-> "none", pc |-> "done", connectionId |-> "", connections |-> <<>>,
   activeConnectionId |-> "", stored |-> 0, removed |-> FALSE,
   config |-> NoConfig, promptId |-> "", prompts |-> <<>>, activePromptId |-> ""]

OpIds == {"o1", "o2"}

\* The storage and the popup's settings panel: raw is what storage holds,
\* options, select, form and deleteEnabled are the connection select's
\* options and value, the form of the connection, and whether the delete
\* button can be clicked; ops are the handlers running, clock is
\* Date.now(), eventsLeft the user's events still to come; promptOptions,
\* promptSelect, systemPrompt and deletePromptEnabled are the prompt
\* select's options and value, the prompt's text box, and whether the
\* delete button of the prompts can be clicked.
NoStore ==
  [raw |-> FreshStorage, options |-> <<>>, select |-> "", form |-> NoConfig,
   deleteEnabled |-> FALSE, ops |-> [o \in OpIds |-> NoOp], clock |-> 1,
   eventsLeft |-> 0, promptOptions |-> <<>>, promptSelect |-> "",
   systemPrompt |-> "", deletePromptEnabled |-> FALSE]

\* No track: null.
NoTrack == [languageCode |-> "", kind |-> "", baseUrl |-> 0]

ClickIds == {"c1", "c2"}

\* A click handler (handleSummarizeClick, handleSummarize) that has not
\* been started.  pc is where the handler stands, config what
\* getProviderConfig gave it; extract is where its getTranscript stands
\* (none: not called; start; background and local: the transcript is being
\* fetched through the background, by the page itself; done; failed),
\* track the track it chose, doc the document it was answered with,
\* transcript and error what getTranscript returned or threw, and later
\* the transcript the handler goes on with.  lookups and fetches count the
\* caption-track lookups and the transcript fetches, asked is whether the
\* popup has asked the tab for the transcript, summarized whether
\* ApiService.summarize was called, shown how many fragments the handler's
\* onChunk callback was given.
NoHandler ==
  [pc |-> "none", config |-> NoConfig, extract |-> "none", track |-> NoTrack,
   doc |-> <<>>, transcript |-> <<>>, error |-> "", lookups |-> 0,
   fetches |-> 0, asked |-> FALSE, summarized |-> FALSE, shown |-> 0]

\* The page (the sidebar on a YouTube page, or the popup) before anything
\* is asked of it: context is which of the two it is, isLoading its flag,
\* message the status or error it shows, manual the text of the
\* manual-transcript box; hasVideoId, tracks and documents are what the
\* YouTube page holds and may answer with, onYouTube whether the popup's
\* tab is a watch page; clicks are the clicks still to come, h the
\* click handlers.  result is the text of the result panel and hidden
\* whether the panel is hidden; willNavigate is whether the user is still
\* to go to another video, and reset whether the panel was reset by a
\* navigation with no summarize click since.
NoUi ==
  [context |-> "sidebar", isLoading |-> FALSE, message |-> "", manual |-> <<>>,
   hasVideoId |-> TRUE, onYouTube |-> TRUE, tracks |-> <<>>, documents |-> {},
   clicks |-> {}, h |-> [c \in ClickIds |-> NoHandler],
   result |-> <<>>, hidden |-> TRUE, willNavigate |-> FALSE, reset |-> FALSE]

\* The bytes the provider will send for the events of a response.
ResponseBody(provider, events) ==
  IF provider = "openai" THEN OpenAIBody(events)
  ELSE IF provider = "gemini" THEN GeminiBody(events)
  ELSE <<>>

\* A call that has not started, with the response the provider will give.
PlannedCall(provider, events) ==
  [NoCall EXCEPT !.provider = provider, !.events = events,
                 !.body = ResponseBody(provider, events)]

\* await fetch(url, {...}): the request goes out.
IssueFetch(c) ==
  [c EXCEPT !.pc = "fetch",
            !.requests = @ + 1,
            !.request = Request(c.provider, c.streaming, c.transcript)]

\* A call the moment its fetch has been issued.
NewCall(provider, events) == IssueFetch(PlannedCall(provider, events))

(***************************************************************************)
(* The responses the provider is taken to give                             *)
(***************************************************************************)

Hi == <<"H", "i">>
There == <<" ", "t", "h", "e", "r", "e">>

\* OpenAI streams.  The first is the end-to-end scenario of the interface
\* description; the others add an escaped newline and quote, an empty
\* content, CRLF line ends and a two-byte character; lines that are no data
\* lines or do not parse; a data line after [DONE]; a last line without its
\* newline.
OpenAIStreams ==
  { <<Event("content", Hi), Event("content", There), Event("done", <<>>)>>,
    <<Event("content", <<"a", "\n", "\"">>), Event("content", <<>>),
      Event("crlf", <<Utf8Char>>), Event("done", <<>>)>>,
    <<Event("comment", <<>>), Event("malformed", <<>>), Event("content", Hi),
      Event("null", <<>>), Event("nochoices", <<>>), Event("content", <<"!">>),
      Event("done", <<>>)>>,
    <<Event("content", Hi), Event("done", <<>>), Event("content", <<"X">>)>>,
    <<Event("content", Hi), Event("unterminated", <<"Z">>)>> }

\* Gemini streams: plain texts; a text with an escaped newline and quote and
\* a two-byte character, and one with brackets and a comma; a span that is
\* no JSON before and between elements; texts that hold braces.
GeminiStreams ==
  { <<Event("text", Hi), Event("text", There)>>,
    <<Event("text", <<"a", "\n", "\"", Utf8Char>>), Event("text", <<"[", ",", "]">>)>>,
    <<Event("malformed", <<>>), Event("text", Hi)>>,
    <<Event("text", Hi), Event("malformed", <<>>), Event("text", <<"{">>)>>,
    <<Event("text", <<"{">>), Event("text", Hi)>>,
    <<Event("text", <<"{", "}">>), Event("text", Hi)>> }

Streams(provider) == IF provider = "openai" THEN OpenAIStreams ELSE GeminiStreams

\* The status codes of responses that are not ok, by their digits.
ErrorStatuses == {<<"4", "0", "1">>, <<"5", "0", "0">>}

BadKey == <<"b", "a", "d", " ", "k", "e", "y">>

\* {"error":{"message":"
ErrorBodyHead ==
  <<"{", "\"", "e", "r", "r", "o", "r", "\"", ":", "{", "\"", "m", "e", "s",
    "s", "a", "g", "e", "\"", ":", "\"">>

\* The bodies of responses that are not ok, each with the message a reader
\* of the body finds in it as error.message (none: <<>>):
\* {"error":{"message":"bad key"}}, {"error":{"message":""}}, {"detail":"x"},
\* an HTML page, and the JSON text null.
ErrorBodies ==
  { [bytes |-> ErrorBodyHead \o BadKey \o <<"\"", "}", "}">>, message |-> BadKey],
    [bytes |-> ErrorBodyHead \o <<"\"", "}", "}">>, message |-> <<>>],
    [bytes |-> <<"{", "\"", "d", "e", "t", "a", "i", "l", "\"", ":", "\"", "x", "\"", "}">>,
     message |-> <<>>],
    [bytes |-> <<"<", "h", "t", "m", "l", ">">>, message |-> <<>>],
    [bytes |-> <<"n", "u", "l", "l">>, message |-> <<>>] }

(***************************************************************************)
(* The port between the page and the background                            *)
(***************************************************************************)

ChunkMessage(chunk) ==
  [success |-> TRUE, done |-> FALSE, chunk |-> chunk, summary |-> <<>>,
   error |-> <<>>]
DoneMessage ==
  [success |-> TRUE, done |-> TRUE, chunk |-> <<>>, summary |-> <<>>,
   error |-> <<>>]
ErrorMessageTo(error) ==
  [success |-> FALSE, done |-> FALSE, chunk |-> <<>>, summary |-> <<>>,
   error |-> error]

\* sendResponse({ success: true, summary }) of the background's onMessage
\* listener.
SummaryMessage(summary) ==
  [success |-> TRUE, done |-> FALSE, chunk |-> <<>>, summary |-> summary,
   error |-> <<>>]

\* port.postMessage(message) in the background: the message is queued for
\* the page; on a disconnected port the call throws and nothing is sent.
MutPostFirst(p, message) ==
  IF p.open THEN [p EXCEPT !.toClient = <<message>> \o @] ELSE p
PostToClient(p, message) ==
  IF p.open THEN [p EXCEPT !.toClient = Append(@, message)] ELSE p

\* The onChunk the background's listener hands to summarize: one message
\* per fragment, in the order of the fragments.
RECURSIVE PostChunks(_, _)
PostChunks(p, fragments) ==
  IF fragments = <<>> THEN p
  ELSE PostChunks(PostToClient(p, ChunkMessage(Head(fragments))), Tail(fragments))

\* "Streaming failed"
StreamingFailed ==
  <<"S", "t", "r", "e", "a", "m", "i", "n", "g", " ", "f", "a", "i", "l",
    "e", "d">>

\* "Unknown provider: other"
UnknownProvider ==
  <<"U", "n", "k", "n", "o", "w", "n", " ", "p", "r", "o", "v", "i", "d",
    "e", "r", ":", " ", "o", "t", "h", "e", "r">>

\* The message chrome.runtime.lastError carries when the port closed on an
\* error.
LastErrorMessage ==
  <<"T", "h", "e", " ", "m", "e", "s", "s", "a", "g", "e", " ", "p", "o",
    "r", "t", " ", "c", "l", "o", "s", "e", "d", " ", "b", "e", "f", "o",
    "r", "e", " ", "a", " ", "r", "e", "s", "p", "o", "n", "s", "e", " ",
    "w", "a", "s", " ", "r", "e", "c", "e", "i", "v", "e", "d", ".">>

\* resolve and reject settle a promise that is still pending, once.
Resolve(cl, value) ==
  IF cl.pc = "pending" THEN [cl EXCEPT !.pc = "resolved", !.value = value] ELSE cl
Reject(cl, error) ==
  IF cl.pc = "pending" THEN [cl EXCEPT !.pc = "rejected", !.error = error] ELSE cl

\* The port.onMessage listener of the proxied summarize.
ClientOnMessage(cl, response) ==
  IF response.success THEN
    IF response.done THEN [Resolve(cl, cl.fullText) EXCEPT !.hangUp = TRUE]
    ELSE IF response.chunk # <<>>
      THEN [cl EXCEPT !.fullText = @ \o response.chunk,
                      !.received = Append(@, response.chunk)]
    ELSE cl
  ELSE [Reject(cl, IF response.error # <<>> THEN response.error ELSE StreamingFailed)
          EXCEPT !.hangUp = TRUE]

\* "Failed to get summary from background script"
NoSummaryFromBackground ==
  <<"F", "a", "i", "l", "e", "d", " ", "t", "o", " ", "g", "e", "t", " ",
    "s", "u", "m", "m", "a", "r", "y", " ", "f", "r", "o", "m", " ", "b",
    "a", "c", "k", "g", "r", "o", "u", "n", "d", " ", "s", "c", "r", "i",
    "p", "t">>

\* The callback of chrome.runtime.sendMessage in the summarize without an
\* onChunk, for a response (with chrome.runtime.lastError not set).
ClientOnResponse(cl, response) ==
  IF response.success THEN Resolve(cl, response.summary)
  ELSE Reject(cl, IF response.error # <<>> THEN response.error
                  ELSE NoSummaryFromBackground)

\* The port.onDisconnect listener of the proxied summarize: it rejects only
\* when chrome.runtime.lastError is set.
ClientOnDisconnect(cl, lastError) ==
  IF lastError THEN Reject(cl, LastErrorMessage) ELSE cl

(***************************************************************************)
(* The steps of a provider call                                            *)
(***************************************************************************)

\* summarize in the background (typeof window === "undefined"): it calls
\* callOpenAI or callGemini, which issue the fetch, and throws for a
\* provider it does not know.
MutDispatchTwice(c) ==
  IF c.provider \in {"openai", "gemini"} THEN IssueFetch(IssueFetch(c))
  ELSE [c EXCEPT !.pc = "rejected", !.error = UnknownProvider]
Dispatch(c) ==
  IF c.provider \in {"openai", "gemini"} THEN IssueFetch(c)
  ELSE [c EXCEPT !.pc = "rejected", !.error = UnknownProvider]

\* The response arrives and is ok: with an onChunk the streaming branch
\* takes the reader, without one the body is awaited as JSON.
HttpOk(id) ==
  /\ calls[id].pc = "fetch"
  /\ calls' = [calls EXCEPT ![id].pc = IF calls[id].streaming THEN "read" ELSE "json"]
  /\ UNCHANGED <<port, client, pageVars>>

\* The response arrives and is not ok: the error body is read as JSON and
\* the call throws.
HttpError(id) ==
  /\ calls[id].pc = "fetch"
  /\ \E status \in ErrorStatuses, body \in ErrorBodies :
       calls' = [calls EXCEPT
                   ![id].pc = "rejected",
                   ![id].status = status,
                   ![id].errorBody = body,
                   ![id].error = ErrorMessage(calls[id].provider, status, body.bytes)]
  /\ UNCHANGED <<port, client, pageVars>>

\* fetch itself fails (no connection): the call rejects.
FetchFails(id) ==
  /\ calls[id].pc = "fetch"
  /\ calls' = [calls EXCEPT ![id].pc = "rejected", ![id].error = NetworkMessage]
  /\ UNCHANGED <<port, client, pageVars>>

\* What one turn of the while loop does with a chunk.
ChunkStep(c, value) ==
  IF c.provider = "openai" THEN OpenAIChunk(c, value) ELSE GeminiChunk(c, value)

\* A call's locals are its own: a turn of its loop changes its record only.
MutSharedBuffer(all, id, after) ==
  [k \in DOMAIN all |-> IF k = id THEN after ELSE [all[k] EXCEPT !.buffer = after.buffer]]
StoreLocals(all, id, after) == [all EXCEPT ![id] = after]

\* reader.read() yields a chunk: any non-empty prefix of the bytes still to
\* come.  The fragments the turn emits go to onChunk: for a proxied call,
\* to the port.  An error thrown in the loop rejects the call.
ReadChunk(id) ==
  /\ calls[id].pc = "read"
  /\ \E n \in 1..Len(calls[id].body) :
       \E after \in {ChunkStep(calls[id], SubSeq(calls[id].body, 1, n))} :
         /\ calls' = StoreLocals(calls, id,
                       [after EXCEPT
                          !.body = SubSeq(@, n + 1, Len(@)),
                          !.carried = @ \/ after.buffer # <<>> \/ after.pending # <<>>,
                          !.pc = IF after.threw THEN "rejected" ELSE "read"])
         /\ port' = IF calls[id].proxied
                      THEN PostChunks(port, SubSeq(after.emitted,
                                                   Len(calls[id].emitted) + 1,
                                                   Len(after.emitted)))
                      ELSE port
  /\ UNCHANGED <<client, pageVars>>

\* reader.read() yields done: the call returns fullContent.
ReadDone(id) ==
  /\ calls[id].pc = "read"
  /\ calls[id].body = <<>>
  /\ calls' = [calls EXCEPT ![id].pc = "returned",
                            ![id].result = calls[id].fullContent]
  /\ UNCHANGED <<port, client, pageVars>>

\* reader.read() rejects (the connection breaks): the call rejects.
ReadFails(id) ==
  /\ calls[id].pc = "read"
  /\ calls' = [calls EXCEPT ![id].pc = "rejected", ![id].error = NetworkMessage]
  /\ UNCHANGED <<port, client, pageVars>>

CallStep(id) ==
  \/ HttpOk(id)
  \/ HttpError(id)
  \/ FetchFails(id)
  \/ ReadChunk(id)
  \/ ReadDone(id)
  \/ ReadFails(id)

(***************************************************************************)
(* Spec: one provider call, either provider, any of the responses, the     *)
(* body cut into chunks in every way                                       *)
(***************************************************************************)

Init ==
  /\ \E provider \in {"openai", "gemini"} :
       \E events \in Streams(provider) :
         calls = [id \in CallIds |->
                    IF id = "A" THEN NewCall(provider, events) ELSE NoCall]
  /\ port = NoPort
  /\ client = NoClient
  /\ store = NoStore
  /\ ui = NoUi

Next == \E id \in CallIds : CallStep(id)

Spec == Init /\ [][Next]_vars

\* The same with the event loop going on: a call whose reader.read() has
\* signalled completion is resumed.
SpecLive == Spec /\ \A id \in CallIds : WF_vars(ReadDone(id))

(***************************************************************************)
(* SpecProxy: a streaming summarize called in a page.  The page connects   *)
(* the summarize-stream port and posts the request; the background's port  *)
(* listener runs the provider call with an onChunk that posts each         *)
(* fragment, then posts done, or the error it caught.                      *)
(***************************************************************************)

\* The responses of the proxied calls.
ProxyStreams(provider) ==
  IF provider = "openai"
    THEN { <<Event("content", Hi), Event("content", There), Event("done", <<>>)>>,
           <<Event("malformed", <<>>), Event("content", Hi), Event("done", <<>>)>> }
  ELSE IF provider = "gemini"
    THEN { <<Event("text", Hi), Event("text", There)>>,
           <<Event("text", Hi), Event("malformed", <<>>), Event("text", <<"{">>)>> }
  ELSE {<<>>}

\* The page has not called summarize yet; call A is the one the background
\* will make for it.
InitProxy ==
  /\ \E provider \in {"openai", "gemini", "other"} :
       \E events \in ProxyStreams(provider) :
         calls = [id \in CallIds |->
                    IF id = "A"
                      THEN [PlannedCall(provider, events) EXCEPT !.proxied = TRUE]
                      ELSE NoCall]
  /\ port = NoPort
  /\ client = NoClient
  /\ store = NoStore
  /\ ui = NoUi

\* summarize in a page with an onChunk: the port is connected, the listeners
\* are registered and the request is posted.
ClientSummarize ==
  /\ client.pc = "idle"
  /\ client.onChunk
  /\ \E id \in CallIds : calls[id].proxied
  /\ client' = [client EXCEPT !.pc = "pending"]
  /\ port' = [port EXCEPT !.open = TRUE, !.toBg = <<"summarize-stream">>]
  /\ UNCHANGED <<calls, pageVars>>

\* The background's port.onMessage listener takes the request and calls
\* ApiService.summarize, which dispatches on the provider and throws for one
\* it does not know.
BgOnRequest(id) ==
  /\ port.open
  /\ port.toBg # <<>>
  /\ calls[id].proxied
  /\ calls[id].pc = "idle"
  /\ Head(port.toBg) = "summarize-stream"
  /\ port' = [port EXCEPT !.toBg = Tail(@)]
  /\ calls' = [calls EXCEPT ![id] = Dispatch([calls[id] EXCEPT !.streaming = TRUE])]
  /\ UNCHANGED <<client, pageVars>>

\* await summarize(...) has returned: the listener posts done.
BgReportDone(id) ==
  /\ calls[id].proxied
  /\ calls[id].streaming
  /\ calls[id].pc = "returned"
  /\ ~calls[id].reported
  /\ calls' = [calls EXCEPT ![id].reported = TRUE]
  /\ port' = PostToClient(port, DoneMessage)
  /\ UNCHANGED <<client, pageVars>>

\* await summarize(...) has thrown: the listener posts the error's message.
BgReportError(id) ==
  /\ calls[id].proxied
  /\ calls[id].streaming
  /\ calls[id].pc = "rejected"
  /\ ~calls[id].reported
  /\ calls' = [calls EXCEPT ![id].reported = TRUE]
  /\ port' = PostToClient(port, ErrorMessageTo(calls[id].error))
  /\ UNCHANGED <<client, pageVars>>

\* The page's port.onMessage listener runs for the next message.
ClientReceive ==
  /\ client.onChunk
  /\ port.open
  /\ port.toClient # <<>>
  /\ \E after \in {ClientOnMessage(client, Head(port.toClient))} :
       /\ client' = after
       /\ port' = [port EXCEPT !.toClient = Tail(@), !.open = ~after.hangUp]
  /\ UNCHANGED <<calls, pageVars>>

\* The background's end of the port goes away (the service worker is
\* stopped, or was never reached): once the messages already posted are
\* delivered, the page's port.onDisconnect listener runs.
\* chrome.runtime.lastError is set when the port closed on an error, and is
\* not set otherwise.
PortDisconnect ==
  /\ client.onChunk
  /\ port.open
  /\ port.toClient = <<>>
  /\ \E lastError \in BOOLEAN :
       client' = ClientOnDisconnect(client, lastError)
  /\ port' = [port EXCEPT !.open = FALSE, !.toBg = <<>>, !.lost = TRUE]
  /\ UNCHANGED <<calls, pageVars>>

NextProxy ==
  \/ ClientSummarize
  \/ \E id \in CallIds : BgOnRequest(id)
  \/ \E id \in CallIds : CallStep(id)
  \/ \E id \in CallIds : BgReportDone(id)
  \/ \E id \in CallIds : BgReportError(id)
  \/ ClientReceive
  \/ PortDisconnect

SpecProxy == InitProxy /\ [][NextProxy]_vars

(***************************************************************************)
(* SpecConc: two provider calls in flight at once, their chunks arriving   *)
(* in any interleaving                                                     *)
(***************************************************************************)

\* The responses of the two calls: different texts, so that a fragment can
\* be told from one of the other call.
ConcStreams(id, provider) ==
  IF provider = "openai"
    THEN {<<Event("content", <<id>>), Event("done", <<>>)>>}
    ELSE {<<Event("text", <<id>>)>>}

\* Both calls have issued their fetch.  An OpenAI call beside a Gemini call
\* is taken once: with the names of the calls swapped it is the same pair.
InitConc ==
  /\ \E pa \in {"openai", "gemini"} :
     \E pb \in IF pa = "openai" THEN {"openai", "gemini"} ELSE {"gemini"} :
       \E ea \in ConcStreams("A", pa), eb \in ConcStreams("B", pb) :
         calls = [id \in CallIds |->
                    IF id = "A" THEN NewCall(pa, ea) ELSE NewCall(pb, eb)]
  /\ port = NoPort
  /\ client = NoClient
  /\ store = NoStore
  /\ ui = NoUi

SpecConc == InitConc /\ [][Next]_vars

(***************************************************************************)
(* The branch without an onChunk: the response is one JSON body            *)
(***************************************************************************)

\* "No summary generated."
NoSummaryGenerated ==
  <<"N", "o", " ", "s", "u", "m", "m", "a", "r", "y", " ", "g", "e", "n",
    "e", "r", "a", "t", "e", "d", ".">>

\* The message of the TypeError for reading property `key` of `of`.
CannotRead(of, key) ==
  <<"C", "a", "n", "n", "o", "t", " ", "r", "e", "a", "d", " ", "p", "r",
    "o", "p", "e", "r", "t", "i", "e", "s", " ", "o", "f", " ">> \o of
  \o <<" ", "(", "r", "e", "a", "d", "i", "n", "g", " ", "'">> \o key \o <<"'", ")">>

\* The message of the SyntaxError response.json() rejects with for a body
\* that is no JSON (the engine adds the token it met).
JsonSyntaxMessage ==
  <<"U", "n", "e", "x", "p", "e", "c", "t", "e", "d", " ", "t", "o", "k",
    "e", "n">>

\* data.choices[0]?.message?.content || "No summary generated." and
\* data.candidates?.[0]?.content?.parts?.[0]?.text || "No summary
\* generated.": the value returned, or the message of the error thrown.
JsonSummary(provider, data) ==
  LET OrNoSummary(content) ==
        [threw |-> FALSE,
         value |-> IF Truthy(content) THEN JsToString(content) ELSE NoSummaryGenerated]
      Threw(message) == [threw |-> TRUE, value |-> message]
      FromChoices(choices) ==
        IF Nullish(choices)
          THEN Threw(CannotRead(<<"u", "n", "d", "e", "f", "i", "n", "e", "d">>, <<"0">>))
          ELSE OrNoSummary(OptProp(OptProp(GetIndex0(choices), KeyMessage), KeyContent))
  IN  IF provider = "openai"
        THEN IF Nullish(data) THEN Threw(CannotRead(<<"n", "u", "l", "l">>, KeyChoices))
             ELSE FromChoices(GetProp(data, KeyChoices))
        ELSE IF Nullish(data) THEN Threw(CannotRead(<<"n", "u", "l", "l">>, KeyCandidates))
             ELSE OrNoSummary(ContentPartsText(OptIndex0(GetProp(data, KeyCandidates))))

\* const data = await response.json(); return ...
ReadJsonBody(provider, body) ==
  LET Parsed(data) ==
        IF ~data.ok THEN [threw |-> TRUE, value |-> JsonSyntaxMessage]
        ELSE JsonSummary(provider, data.v)
      Text(decoded) == Parsed(JsonParse(decoded.text))
  IN  Text(DecodeStream(<<>>, body))

\* The body arrives whole and is parsed: the call returns or throws.
ReadJson(id) ==
  /\ calls[id].pc = "json"
  /\ \E got \in {ReadJsonBody(calls[id].provider, calls[id].body)} :
       calls' = [calls EXCEPT
                   ![id].body = <<>>,
                   ![id].pc = IF got.threw THEN "rejected" ELSE "returned",
                   ![id].result = IF got.threw THEN @ ELSE got.value,
                   ![id].error = IF got.threw THEN got.value ELSE @]
  /\ UNCHANGED <<port, client, pageVars>>

\* {"choices":[{"message":{"content":"
OpenAIReplyHead ==
  <<"{", "\"", "c", "h", "o", "i", "c", "e", "s", "\"", ":", "[", "{", "\"",
    "m", "e", "s", "s", "a", "g", "e", "\"", ":", "{", "\"", "c", "o", "n",
    "t", "e", "n", "t", "\"", ":", "\"">>

\* The text of a response that is one JSON body: a reply with a text, one
\* with an empty list of choices / candidates, an object without them, and
\* a body that is no JSON.
JsonReplyText(provider, e) ==
  CASE e.kind = "reply" ->
         IF provider = "openai"
           THEN OpenAIReplyHead \o EscapeJson(e.text) \o OpenAIPayloadTail
           ELSE GeminiElementHead \o EscapeJson(e.text) \o GeminiElementTail
    [] e.kind = "noitems" ->
         <<"{", "\"">> \o (IF provider = "openai" THEN KeyChoices ELSE KeyCandidates)
         \o <<"\"", ":", "[", "]", "}">>
    [] e.kind = "bare" -> <<"{", "}">>
    [] e.kind = "html" -> <<"<", "h", "t", "m", "l", ">">>

JsonBody(provider, events) ==
  IF events = <<>> THEN <<>> ELSE Utf8Encode(JsonReplyText(provider, events[1]))

(***************************************************************************)
(* SpecRequest: one summarize call in each of its forms: in the background *)
(* or in a page, with or without an onChunk, either provider or one that   *)
(* is not known                                                            *)
(***************************************************************************)

\* A transcript of n characters (the digits of their positions).
TranscriptOf(n) == [i \in 1..n |-> CHOOSE d \in Digits : d = ToString(i % 10)]

\* The length of the transcripts of these calls.
ShortLength == 3

\* The responses to a streaming request and to one that is not.
RequestReplies(provider, streaming) ==
  IF provider = "other" THEN {<<>>}
  ELSE IF streaming THEN ConcStreams("A", provider)
  ELSE { <<Event("reply", Hi)>>, <<Event("reply", <<>>)>>,
         <<Event("noitems", <<>>)>>, <<Event("bare", <<>>)>>,
         <<Event("html", <<>>)>> }

\* The call as planned: in a page (proxied) the background's listener
\* decides whether the call is given an onChunk; the provider answers a
\* streaming request with a stream and any other with one JSON body.
RequestPlan(provider, proxied, onChunk, n, events) ==
  [NoCall EXCEPT !.provider = provider,
                 !.proxied = proxied,
                 !.streaming = onChunk,
                 !.transcript = TranscriptOf(n),
                 !.events = events,
                 !.body = IF onChunk THEN ResponseBody(provider, events)
                          ELSE JsonBody(provider, events)]

InitRequest ==
  /\ \E provider \in {"openai", "gemini", "other"}, proxied \in BOOLEAN,
        onChunk \in BOOLEAN :
       \E events \in RequestReplies(provider, onChunk) :
         /\ calls = [id \in CallIds |->
                      IF id = "A"
                        THEN RequestPlan(provider, proxied, onChunk, ShortLength, events)
                        ELSE NoCall]
         /\ client = [NoClient EXCEPT !.onChunk = onChunk]
  /\ port = NoPort
  /\ store = NoStore
  /\ ui = NoUi

\* summarize called in the background itself.
CallSummarize(id) ==
  /\ calls[id].pc = "idle"
  /\ calls[id].provider # "none"
  /\ ~calls[id].proxied
  /\ calls' = [calls EXCEPT ![id] = Dispatch(calls[id])]
  /\ UNCHANGED <<port, client, pageVars>>

\* summarize in a page without an onChunk: chrome.runtime.sendMessage.
ClientSendMessage ==
  /\ client.pc = "idle"
  /\ ~client.onChunk
  /\ \E id \in CallIds : calls[id].proxied
  /\ client' = [client EXCEPT !.pc = "pending"]
  /\ port' = [port EXCEPT !.open = TRUE, !.toBg = <<"summarize">>]
  /\ UNCHANGED <<calls, pageVars>>

\* The background's onMessage listener takes the message and calls
\* ApiService.summarize without an onChunk.
ListenerCall(c) == [c EXCEPT !.streaming = FALSE]

BgOnMessage(id) ==
  /\ port.open
  /\ port.toBg # <<>>
  /\ Head(port.toBg) = "summarize"
  /\ calls[id].proxied
  /\ calls[id].pc = "idle"
  /\ port' = [port EXCEPT !.toBg = Tail(@)]
  /\ calls' = [calls EXCEPT ![id] = Dispatch(ListenerCall(calls[id]))]
  /\ UNCHANGED <<client, pageVars>>

\* The listener's then / catch: sendResponse with the summary or the
\* error's message.
BgSendResponse(id) ==
  /\ calls[id].proxied
  /\ ~calls[id].streaming
  /\ calls[id].pc \in {"returned", "rejected"}
  /\ ~calls[id].reported
  /\ calls' = [calls EXCEPT ![id].reported = TRUE]
  /\ port' = PostToClient(port, IF calls[id].pc = "returned"
                                  THEN SummaryMessage(calls[id].result)
                                  ELSE ErrorMessageTo(calls[id].error))
  /\ UNCHANGED <<client, pageVars>>

\* The page's sendMessage callback runs with the response.
ClientResponse ==
  /\ ~client.onChunk
  /\ port.open
  /\ port.toClient # <<>>
  /\ client' = ClientOnResponse(client, Head(port.toClient))
  /\ port' = [port EXCEPT !.toClient = Tail(@), !.open = FALSE]
  /\ UNCHANGED <<calls, pageVars>>

\* The background goes away before it has responded: the sendMessage
\* callback runs with chrome.runtime.lastError set.
ChannelClosed ==
  /\ ~client.onChunk
  /\ port.open
  /\ port.toClient = <<>>
  /\ client' = Reject(client, LastErrorMessage)
  /\ port' = [port EXCEPT !.open = FALSE, !.toBg = <<>>, !.lost = TRUE]
  /\ UNCHANGED <<calls, pageVars>>

NextRequest ==
  \/ \E id \in CallIds : CallSummarize(id)
  \/ ClientSummarize
  \/ ClientSendMessage
  \/ \E id \in CallIds : BgOnRequest(id)
  \/ \E id \in CallIds : BgOnMessage(id)
  \/ \E id \in CallIds : CallStep(id)
  \/ \E id \in CallIds : ReadJson(id)
  \/ \E id \in CallIds : BgReportDone(id)
  \/ \E id \in CallIds : BgReportError(id)
  \/ \E id \in CallIds : BgSendResponse(id)
  \/ ClientReceive
  \/ ClientResponse
  \/ PortDisconnect
  \/ ChannelClosed

SpecRequest == InitRequest /\ [][NextRequest]_vars

(***************************************************************************)
(* SpecTruncate: a streaming call of either provider with a transcript     *)
(* around the provider's limit                                             *)
(***************************************************************************)

\* The 20,000 characters of the truncation scenario of the interface
\* description.
ScenarioLength == 20000

\* The lengths of the transcripts: none, one, the limit less one, the
\* limit, one more, and for OpenAI the scenario's.
TranscriptLengths(provider) ==
  IF provider = "openai"
    THEN {0, 1, OpenAILimit - 1, OpenAILimit, OpenAILimit + 1, ScenarioLength}
    ELSE {0, 1, GeminiLimit - 1, GeminiLimit, GeminiLimit + 1}

InitTruncate ==
  /\ \E provider \in {"openai", "gemini"} :
       \E n \in TranscriptLengths(provider), events \in ConcStreams("A", provider) :
         calls = [id \in CallIds |->
                    IF id = "A"
                      THEN RequestPlan(provider, FALSE, TRUE, n, events)
                      ELSE NoCall]
  /\ port = NoPort
  /\ client = NoClient
  /\ store = NoStore
  /\ ui = NoUi

NextTruncate ==
  \/ \E id \in CallIds : CallSummarize(id)
  \/ \E id \in CallIds : CallStep(id)

SpecTruncate == InitTruncate /\ [][NextTruncate]_vars

(***************************************************************************)
(* Caption tracks (content.js)                                             *)
(*                                                                         *)
(* A track has a languageCode, a kind ("" for a track without one, which   *)
(* is a manual track, "asr" for an auto-generated one, or another word)    *)
(* and a baseUrl, here the track's place in the list.                      *)
(***************************************************************************)

\* The checks of the priorities array, in its order.
Priorities == 1..6

MutAsrBeforeManual(check, track) ==
  CASE check = 1 -> track.languageCode = "en" /\ track.kind = "asr"
    [] check = 2 -> track.languageCode = "vi" /\ track.kind = "asr"
    [] check = 3 -> track.languageCode = "en" /\ track.kind = ""
    [] check = 4 -> track.languageCode = "vi" /\ track.kind = ""
    [] check = 5 -> track.kind = ""
    [] check = 6 -> track.kind = "asr"
Satisfies(check, track) ==
  CASE check = 1 -> track.languageCode = "en" /\ track.kind = ""
    [] check = 2 -> track.languageCode = "vi" /\ track.kind = ""
    [] check = 3 -> track.languageCode = "en" /\ track.kind = "asr"
    [] check = 4 -> track.languageCode = "vi" /\ track.kind = "asr"
    [] check = 5 -> track.kind = ""
    [] check = 6 -> track.kind = "asr"

\* tracks.find(check): the first track the check holds of, or undefined.
MutFindLast(tracks, check) ==
  LET found == SelectSeq(tracks, LAMBDA track : Satisfies(check, track))
  IN  IF found = <<>> THEN NoTrack ELSE found[Len(found)]
ArrayFind(tracks, check) ==
  LET found == SelectSeq(tracks, LAMBDA track : Satisfies(check, track))
  IN  IF found = <<>> THEN NoTrack ELSE Head(found)

\* return tracks[0] || null
MutNullFallback(tracks) == NoTrack
FirstOrNull(tracks) == IF tracks # <<>> THEN tracks[1] ELSE NoTrack

\* The loop over the priorities from `check` on, and the return after it.
RECURSIVE FindFrom(_, _)
FindFrom(tracks, check) ==
  IF check \notin Priorities
    THEN FirstOrNull(tracks)
  ELSE IF ArrayFind(tracks, check) # NoTrack THEN ArrayFind(tracks, check)
  ELSE FindFrom(tracks, check + 1)

findPreferredTrack(tracks) == FindFrom(tracks, 1)

(***************************************************************************)
(* The transcript document (content.js)                                    *)
(*                                                                         *)
(* DOMParser is modelled for documents that are well formed: tags without  *)
(* a ">" in their attributes, text with the predefined entities and &#39;. *)
(* An element is known by the place of its start tag among the tags.       *)
(***************************************************************************)

\* The n-th tag of the document, without its angle brackets.
TagAt(xml, n) ==
  SubSeq(xml, PositionsOf(xml, {"<"})[n] + 1, PositionsOf(xml, {">"})[n] - 1)

TagCount(xml) == Len(PositionsOf(xml, {"<"}))

\* A start tag, an end tag, an empty-element tag, or the XML declaration.
TagKind(tag) ==
  IF tag = <<>> THEN "start"
  ELSE IF Head(tag) = "/" THEN "end"
  ELSE IF Head(tag) = "?" THEN "declaration"
  ELSE IF tag[Len(tag)] = "/" THEN "empty"
  ELSE "start"

\* The name of a tag: what stands before its attributes.
TagName(tag) ==
  LET From(s) ==
        LET stop == PositionsOf(s, {" ", "/"})
        IN  IF stop = <<>> THEN s ELSE SubSeq(s, 1, stop[1] - 1)
  IN  From(IF tag # <<>> /\ Head(tag) = "/" THEN Tail(tag) ELSE tag)

\* The characters between the n-th tag and the next.
RawTextAfter(xml, n) ==
  SubSeq(xml, PositionsOf(xml, {">"})[n] + 1,
         IF n = TagCount(xml) THEN Len(xml) ELSE PositionsOf(xml, {"<"})[n + 1] - 1)

\* The character an entity reference of the document stands for.
XmlEntity(name) ==
  CASE name = <<"a", "m", "p">> -> <<"&">>
    [] name = <<"l", "t">> -> <<"<">>
    [] name = <<"g", "t">> -> <<">">>
    [] name = <<"q", "u", "o", "t">> -> <<"\"">>
    [] name = <<"a", "p", "o", "s">> -> <<"'">>
    [] name = <<"#", "3", "9">> -> <<"'">>
    [] OTHER -> <<>>

\* Character data as the parser hands it on: each reference replaced, once.
XmlText(raw) ==
  LET With(amps, semis) ==
        LET n == Len(amps)
            \* where the k-th reference ends
            End(k) == Head(SelectSeq(semis, LAMBDA j : j > amps[k]))
            Piece(k) ==
              IF k = 0 THEN SubSeq(raw, 1, (IF n = 0 THEN Len(raw) ELSE amps[1] - 1))
              ELSE XmlEntity(SubSeq(raw, amps[k] + 1, End(k) - 1))
                   \o SubSeq(raw, End(k) + 1,
                             IF k = n THEN Len(raw) ELSE amps[k + 1] - 1)
        IN  Concat([k \in 1..(n + 1) |-> Piece(k - 1)])
  IN  With(PositionsOf(raw, {"&"}), PositionsOf(raw, {";"}))

\* How deep the document is after its n-th tag.
DepthAfter(xml, n) ==
  Cardinality({k \in 1..n : TagKind(TagAt(xml, k)) = "start"})
  - Cardinality({k \in 1..n : TagKind(TagAt(xml, k)) = "end"})

\* The end tag of the element that starts with the n-th tag (n itself for
\* an empty element).
EndOf(xml, n) ==
  IF TagKind(TagAt(xml, n)) = "empty" THEN n
  ELSE CHOOSE m \in (n + 1)..TagCount(xml) :
         /\ DepthAfter(xml, m) = DepthAfter(xml, n) - 1
         /\ \A k \in (n + 1)..(m - 1) : DepthAfter(xml, k) >= DepthAfter(xml, n)

\* el.textContent: the character data within the element, in order.
TextContent(xml, n) ==
  IF EndOf(xml, n) = n THEN <<>>
  ELSE Concat([k \in 1..(EndOf(xml, n) - n) |-> XmlText(RawTextAfter(xml, n + k - 1))])

\* doc.querySelectorAll(name): the elements of that name, in document order.
QuerySelectorAll(xml, name) ==
  SelectSeq([n \in 1..TagCount(xml) |-> n],
            LAMBDA n : /\ TagKind(TagAt(xml, n)) \in {"start", "empty"}
                       /\ TagName(TagAt(xml, n)) = name)

\* s.replace(/pattern/g, replacement) for a pattern that is a fixed text
\* that cannot overlap itself.
ReplaceAll(s, pattern, replacement) ==
  LET With(at) ==
        LET n == Len(at)
            Piece(k) ==
              SubSeq(s, IF k = 0 THEN 1 ELSE at[k] + Len(pattern),
                     IF k = n THEN Len(s) ELSE at[k + 1] - 1)
        IN  Concat([k \in 1..(2 * n + 1) |->
                      IF k % 2 = 1 THEN Piece((k - 1) \div 2) ELSE replacement])
  IN  With(SelectSeq([i \in 1..Len(s) |-> i],
                     LAMBDA i : /\ i + Len(pattern) - 1 <= Len(s)
                                /\ SubSeq(s, i, i + Len(pattern) - 1) = pattern))

Amp == <<"&", "a", "m", "p", ";">>
Lt == <<"&", "l", "t", ";">>
Gt == <<"&", "g", "t", ";">>
Quot == <<"&", "q", "u", "o", "t", ";">>
Apos39 == <<"&", "#", "3", "9", ";">>

\* The chain of replace calls and the trim on an element's text.
CleanText(text) ==
  Trim(ReplaceAll(ReplaceAll(ReplaceAll(ReplaceAll(ReplaceAll(ReplaceAll(
         text, Amp, <<"&">>), Lt, <<"<">>), Gt, <<">">>), Quot, <<"\"">>),
         Apos39, <<"'">>), <<"\n">>, <<" ">>))

\* texts.join(" ")
JoinWithSpace(texts) ==
  Concat([k \in 1..Len(texts) |-> IF k = 1 THEN texts[k] ELSE <<" ">> \o texts[k]])

parseTranscriptXml(xml) ==
  LET Texts(textElements) ==
        SelectSeq([k \in 1..Len(textElements) |->
                     CleanText(TextContent(xml, textElements[k]))],
                  LAMBDA text : text # <<>>)
      Of(textElements) ==
        IF Len(textElements) = 0
          THEN Texts(QuerySelectorAll(xml, <<"p">>))
          ELSE Texts(textElements)
  IN  JoinWithSpace(Of(QuerySelectorAll(xml, <<"t", "e", "x", "t">>)))

(***************************************************************************)
(* SpecTranscript: getTranscript on a page with up to MaxTracks caption    *)
(* tracks, answered with one of the documents below                        *)
(***************************************************************************)

MaxTracks == 2

LanguageCodes == {"en", "vi", "fr"}
TrackKinds == {"", "asr", "forced"}

\* The lists of up to MaxTracks tracks.
TrackLists ==
  UNION { { [i \in 1..n |-> [languageCode |-> f[i][1], kind |-> f[i][2], baseUrl |-> i]] :
            f \in [1..n -> LanguageCodes \X TrackKinds] } : n \in 0..MaxTracks }

\* An element of a transcript document: its name and the pieces of its
\* character data, the second and later ones each inside an <s> child.
El(name, parts) == [name |-> name, parts |-> parts]

NameChars(name) ==
  CASE name = "text" -> <<"t", "e", "x", "t">>
    [] name = "p" -> <<"p">>
    [] name = "s" -> <<"s">>
    [] name = "transcript" -> <<"t", "r", "a", "n", "s", "c", "r", "i", "p", "t">>

\* Character data as a document is written: & < > as references.
EscapeXml(text) ==
  Concat([i \in 1..Len(text) |->
            CASE text[i] = "&" -> Amp
              [] text[i] = "<" -> Lt
              [] text[i] = ">" -> Gt
              [] OTHER -> <<text[i]>>])

StartTag(name) ==
  <<"<">> \o NameChars(name) \o <<" ", "t", "=", "\"", "0", "\"", ">">>
EndTag(name) == <<"<", "/">> \o NameChars(name) \o <<">">>

ElementXml(el) ==
  StartTag(el.name)
  \o Concat([k \in 1..Len(el.parts) |->
               IF k = 1 THEN EscapeXml(el.parts[k])
               ELSE StartTag("s") \o EscapeXml(el.parts[k]) \o EndTag("s")])
  \o EndTag(el.name)

\* <?xml version="1.0"?>
XmlDeclaration ==
  <<"<", "?", "x", "m", "l", " ", "v", "e", "r", "s", "i", "o", "n", "=",
    "\"", "1", ".", "0", "\"", "?", ">">>

\* The document YouTube answers with for the elements of doc.
XmlOf(doc) ==
  XmlDeclaration
  \o (IF doc = <<>>
        THEN <<"<">> \o NameChars("transcript") \o <<"/", ">">>
        ELSE <<"<">> \o NameChars("transcript") \o <<">">>
             \o Concat([k \in 1..Len(doc) |-> ElementXml(doc[k])])
             \o EndTag("transcript"))

\* "A & B\nC", the text of the normalization scenario.
AAndBC == <<"A", " ", "&", " ", "B", "\n", "C">>
\* it&#39;s &quot;ok&quot; &lt;b&gt;, a caption YouTube has escaped
ItsOk ==
  <<"i", "t">> \o Apos39 \o <<"s", " ">> \o Quot \o <<"o", "k">> \o Quot
  \o <<" ">> \o Lt \o <<"b">> \o Gt
\* &amp;lt;, the escaped form of a caption that reads &lt;
EscapedLt == Amp \o <<"l", "t", ";">>

\* The transcript documents.
Documents ==
  { <<>>,
    <<El("text", <<AAndBC>>)>>,
    <<El("text", <<<<" ">> \o Hi \o <<" ">>>>), El("text", <<<<>>>>),
      El("text", <<<<"\n">>>>), El("text", <<Tail(There) \o <<"\n">>>>)>>,
    <<El("p", <<Hi, There>>), El("p", <<<<"\n">>>>), El("p", <<AAndBC>>)>>,
    <<El("p", <<Hi>>), El("text", <<Tail(There)>>), El("p", <<AAndBC>>)>>,
    <<El("text", <<ItsOk>>), El("text", <<<<"a", "<", "b">>>>)>>,
    <<El("text", <<EscapedLt>>)>> }

InitTranscript ==
  /\ calls = [id \in CallIds |-> NoCall]
  /\ port = NoPort
  /\ client = NoClient
  /\ store = NoStore
  /\ \E tracks \in TrackLists, hasVideoId \in BOOLEAN :
       ui = [NoUi EXCEPT !.h["c1"].extract = "start", !.tracks = tracks,
                         !.documents = Documents, !.hasVideoId = hasVideoId]

\* getTranscript up to the call of fetchTranscript: the video id, the
\* caption tracks, the track to take.
GetCaptionTracks(c) ==
  /\ ui.h[c].extract = "start"
  /\ ui' =
       IF ~ui.hasVideoId
         THEN [ui EXCEPT !.h[c].extract = "failed", !.h[c].error = "noVideoId"]
       ELSE IF ui.tracks = <<>>
         THEN [ui EXCEPT !.h[c].extract = "failed", !.h[c].error = "noCaptions",
                         !.h[c].lookups = @ + 1]
       ELSE IF findPreferredTrack(ui.tracks) = NoTrack
         THEN [ui EXCEPT !.h[c].extract = "failed",
                         !.h[c].error = "noSuitableCaptions",
                         !.h[c].lookups = @ + 1]
       ELSE [ui EXCEPT !.h[c].extract = "background", !.h[c].lookups = @ + 1,
                       !.h[c].track = findPreferredTrack(ui.tracks)]
  /\ UNCHANGED <<calls, port, client, store>>

\* fetchTranscript: the background answers FETCH_TRANSCRIPT with the
\* document.
BackgroundFetched(c) ==
  /\ ui.h[c].extract = "background"
  /\ \E doc \in ui.documents :
       ui' = [ui EXCEPT !.h[c].extract = "done", !.h[c].doc = doc,
                        !.h[c].fetches = @ + 1,
                        !.h[c].transcript = parseTranscriptXml(XmlOf(doc))]
  /\ UNCHANGED <<calls, port, client, store>>

\* fetchTranscript: the background answers without success or the message
\* fails; the catch goes on to fetch in the page.
BackgroundFetchFails(c) ==
  /\ ui.h[c].extract = "background"
  /\ ui' = [ui EXCEPT !.h[c].extract = "local", !.h[c].fetches = @ + 1]
  /\ UNCHANGED <<calls, port, client, store>>

\* fetchTranscript: the page's own fetch answers ok.
LocalFetched(c) ==
  /\ ui.h[c].extract = "local"
  /\ \E doc \in ui.documents :
       ui' = [ui EXCEPT !.h[c].extract = "done", !.h[c].doc = doc,
                        !.h[c].fetches = @ + 1,
                        !.h[c].transcript = parseTranscriptXml(XmlOf(doc))]
  /\ UNCHANGED <<calls, port, client, store>>

\* fetchTranscript: the page's own fetch fails or answers not ok.
LocalFetchFails(c) ==
  /\ ui.h[c].extract = "local"
  /\ ui' = [ui EXCEPT !.h[c].extract = "failed", !.h[c].error = "fetchFailed",
                      !.h[c].fetches = @ + 1]
  /\ UNCHANGED <<calls, port, client, store>>

GetTranscriptStep(c) ==
  \/ GetCaptionTracks(c)
  \/ BackgroundFetched(c)
  \/ BackgroundFetchFails(c)
  \/ LocalFetched(c)
  \/ LocalFetchFails(c)

NextTranscript == \E c \in ClickIds : GetTranscriptStep(c)

SpecTranscript == InitTranscript /\ [][NextTranscript]_vars

(***************************************************************************)
(* Settings (storage.js)                                                   *)
(***************************************************************************)

\* DEFAULT_SETTINGS.connections
DefaultConnections ==
  <<Connection("default_openai", "openai", ""),
    Connection("default_gemini", "gemini", "")>>

\* The connections of the legacy keys, as the migration of getSettings
\* builds them.
MigratedConnections(raw) ==
  (IF raw.openai.set
     THEN <<Connection("migrated_openai", "openai", raw.openai.apiKey)>> ELSE <<>>)
  \o (IF raw.gemini.set
        THEN <<Connection("migrated_gemini", "gemini", raw.gemini.apiKey)>> ELSE <<>>)

DefaultPrompts == <<Prompt("default", "")>>

\* chrome.storage.sync.get with the defaults: the connections, the
\* activeConnectionId, the prompts and the activePromptId as stored, the
\* defaults for what is not.
StoredSettings(raw) ==
  [connections |-> IF raw.connections.set THEN raw.connections.value
                   ELSE DefaultConnections,
   activeConnectionId |-> IF raw.activeConnectionId # "" THEN raw.activeConnectionId
                          ELSE "default_openai",
   prompts |-> IF raw.prompts.set THEN raw.prompts.value ELSE DefaultPrompts,
   activePromptId |-> IF raw.activePromptId # "" THEN raw.activePromptId
                      ELSE "default"]

\* The migration of the legacy systemPrompt: it becomes the content of a
\* default prompt that is the only prompt and has no content.
MigratedPrompts(raw, prompts) ==
  IF raw.systemPrompt # "" /\ Len(prompts) = 1 /\ prompts[1].id = "default"
     /\ prompts[1].content = ""
    THEN <<[prompts[1] EXCEPT !.content = raw.systemPrompt]>>
    ELSE prompts

\* The migration of the legacy provider keys is made when one of them is
\* there and no more than two connections are.
MigratesConnections(raw) ==
  (raw.openai.set \/ raw.gemini.set) /\ Len(StoredSettings(raw).connections) <= 2

\* getSettings: what is stored, with the migrated connections and the
\* migrated prompt in the place of the stored ones when the migrations
\* are made.
getSettings(raw) ==
  [connections |-> IF MigratesConnections(raw) THEN MigratedConnections(raw)
                   ELSE StoredSettings(raw).connections,
   activeConnectionId |->
     IF MigratesConnections(raw)
       THEN (IF raw.provider = "gemini" THEN "migrated_gemini" ELSE "migrated_openai")
       ELSE StoredSettings(raw).activeConnectionId,
   prompts |-> MigratedPrompts(raw, StoredSettings(raw).prompts),
   activePromptId |-> StoredSettings(raw).activePromptId]

\* connections.find((c) => c.id === id) || connections[0]
FindConnection(connections, id) ==
  LET found == SelectSeq(connections, LAMBDA c : c.id = id)
  IN  IF found # <<>> THEN Head(found) ELSE Head(connections)

DefaultBaseUrl(provider) ==
  IF provider = "openai" THEN "https://api.openai.com/v1"
  ELSE "https://generativelanguage.googleapis.com"
DefaultModel(provider) ==
  IF provider = "openai" THEN "gpt-4o-mini" ELSE "gemini-2.0-flash"

\* The config of a connection, defaults in the place of what is empty.
ConfigOf(connection) ==
  [provider |-> connection.provider,
   apiKey |-> connection.apiKey,
   baseUrl |-> IF connection.baseUrl # "" THEN connection.baseUrl
               ELSE DefaultBaseUrl(connection.provider),
   model |-> IF connection.model # "" THEN connection.model
             ELSE DefaultModel(connection.provider)]

getProviderConfig(raw) ==
  ConfigOf(FindConnection(getSettings(raw).connections,
                          getSettings(raw).activeConnectionId))

\* saveAllSettings({ connections, activeConnectionId })
SaveConnections(raw, connections, activeConnectionId) ==
  [raw EXCEPT !.connections = [set |-> TRUE, value |-> connections],
              !.activeConnectionId = activeConnectionId]

\* saveSetting("activeConnectionId", id)
SaveActiveConnectionId(raw, id) == [raw EXCEPT !.activeConnectionId = id]

\* saveAllSettings({ prompts, activePromptId })
SavePrompts(raw, prompts, activePromptId) ==
  [raw EXCEPT !.prompts = [set |-> TRUE, value |-> prompts],
              !.activePromptId = activePromptId]

\* saveSetting("activePromptId", id)
SaveActivePromptId(raw, id) == [raw EXCEPT !.activePromptId = id]

(***************************************************************************)
(* The popup's connection handlers (part_001)                              *)
(***************************************************************************)

Ids(connections) == [k \in 1..Len(connections) |-> connections[k].id]

\* The value of the connection select after renderConnectionSelect: the
\* option selected, the first option when none is.
SelectValue(options, activeConnectionId) ==
  IF \E k \in 1..Len(options) : options[k] = activeConnectionId
    THEN activeConnectionId
  ELSE IF options # <<>> THEN Head(options) ELSE ""

FormOf(connection) ==
  [provider |-> connection.provider, apiKey |-> connection.apiKey,
   baseUrl |-> connection.baseUrl, model |-> connection.model]

\* The popup once loadSettings has run on what storage holds.
LoadedPopup(raw, events) ==
  [NoStore EXCEPT
     !.raw = raw,
     !.options = Ids(getSettings(raw).connections),
     !.select = SelectValue(Ids(getSettings(raw).connections),
                            getSettings(raw).activeConnectionId),
     !.form = FormOf(FindConnection(getSettings(raw).connections,
                                    getSettings(raw).activeConnectionId)),
     !.deleteEnabled = Len(StoredSettings(raw).connections) > 1,
     !.eventsLeft = events,
     !.promptOptions = Ids(getSettings(raw).prompts),
     !.promptSelect = SelectValue(Ids(getSettings(raw).prompts),
                                  getSettings(raw).activePromptId),
     !.systemPrompt = FindConnection(getSettings(raw).prompts,
                                     getSettings(raw).activePromptId).content,
     !.deletePromptEnabled = getSettings(raw).activePromptId # "default"]

\* A handler is started by an event of the user.
Begin(o, kind, connectionId) ==
  [store EXCEPT !.ops[o] = [NoOp EXCEPT !.kind = kind, !.pc = "read",
                                        !.connectionId = connectionId],
                !.eventsLeft = @ - 1]

CanBegin(o) ==
  /\ store.eventsLeft > 0
  /\ store.ops[o].pc = "done"

\* The user clicks the add button.
ClickAdd(o) ==
  /\ CanBegin(o)
  /\ store' = Begin(o, "add", "")
  /\ UNCHANGED <<calls, port, client, ui>>

\* handleAddConnection: getSettings has answered; the new connection is
\* appended to what it answered.
AddConnectionReads(o) ==
  /\ store.ops[o].kind = "add" /\ store.ops[o].pc = "read"
  /\ \E newId \in {"conn_" \o ToString(store.clock)} :
       store' = [store EXCEPT
         !.clock = @ + 1,
         !.ops[o].pc = "write",
         !.ops[o].stored = Len(StoredSettings(store.raw).connections),
         !.ops[o].connections =
           Append(getSettings(store.raw).connections, Connection(newId, "openai", "")),
         !.ops[o].activeConnectionId = newId]
  /\ UNCHANGED <<calls, port, client, ui>>

\* handleAddConnection: saveAllSettings has stored the list; the select
\* and the form show the new connection, updateConnectionActions is called.
AddConnectionSaves(o) ==
  /\ store.ops[o].kind = "add" /\ store.ops[o].pc = "write"
  /\ store' = [store EXCEPT
       !.raw = SaveConnections(@, store.ops[o].connections,
                               store.ops[o].activeConnectionId),
       !.options = Ids(store.ops[o].connections),
       !.select = store.ops[o].activeConnectionId,
       !.form = FormOf(Connection("", "openai", "")),
       !.ops[o].pc = "actions"]
  /\ UNCHANGED <<calls, port, client, ui>>

\* The user clicks the delete button: the handler takes the select's value
\* before it awaits the settings.
ClickDelete(o) ==
  /\ CanBegin(o)
  /\ store.deleteEnabled
  /\ store' = Begin(o, "delete", store.select)
  /\ UNCHANGED <<calls, port, client, ui>>

\* handleDeleteConnection: getSettings has answered.  With one connection
\* or none the handler returns; when the filter leaves none, reading
\* updatedConnections[0].id throws and the handler ends.
DeleteConnectionReads(o) ==
  /\ store.ops[o].kind = "delete" /\ store.ops[o].pc = "read"
  /\ \E settings \in {getSettings(store.raw)} :
       \E updatedConnections \in
            {SelectSeq(settings.connections,
                       LAMBDA c : c.id # store.ops[o].connectionId)} :
         store' = [store EXCEPT
           !.ops[o].stored = Len(StoredSettings(store.raw).connections),
           !.ops[o].pc = IF Len(settings.connections) <= 1 \/ updatedConnections = <<>>
                           THEN "done" ELSE "write",
           !.ops[o].connections = updatedConnections,
           !.ops[o].activeConnectionId =
             IF updatedConnections = <<>> THEN "" ELSE updatedConnections[1].id]
  /\ UNCHANGED <<calls, port, client, ui>>

\* handleDeleteConnection: saveAllSettings has stored the list; the select
\* is rendered and handleConnectionSelectChange is called.
DeleteConnectionSaves(o) ==
  /\ store.ops[o].kind = "delete" /\ store.ops[o].pc = "write"
  /\ store' = [store EXCEPT
       !.raw = SaveConnections(@, store.ops[o].connections,
                               store.ops[o].activeConnectionId),
       !.options = Ids(store.ops[o].connections),
       !.select = SelectValue(Ids(store.ops[o].connections),
                              store.ops[o].activeConnectionId),
       !.ops[o].removed =
         \E k \in 1..Len(StoredSettings(store.raw).connections) :
           \A j \in 1..Len(store.ops[o].connections) :
             store.ops[o].connections[j].id
               # StoredSettings(store.raw).connections[k].id,
       !.ops[o].pc = "selectRead"]
  /\ UNCHANGED <<calls, port, client, ui>>

\* The user picks an option of the connection select.
ChangeSelect(o) ==
  /\ CanBegin(o)
  /\ \E k \in 1..Len(store.options) :
       /\ store.options[k] # store.select
       /\ store' = [Begin(o, "select", "") EXCEPT !.select = store.options[k],
                                                  !.ops[o].pc = "selectRead"]
  /\ UNCHANGED <<calls, port, client, ui>>

\* handleConnectionSelectChange: getSettings has answered; the select's
\* value is taken now; when the settings hold it the form is filled and
\* the id is saved.
SelectReads(o) ==
  /\ store.ops[o].pc = "selectRead"
  /\ \E settings \in {getSettings(store.raw)} :
       store' =
         IF \E k \in 1..Len(settings.connections) :
              settings.connections[k].id = store.select
           THEN [store EXCEPT
                   !.form = FormOf(FindConnection(settings.connections, store.select)),
                   !.ops[o].connectionId = store.select,
                   !.ops[o].pc = "selectWrite"]
           ELSE [store EXCEPT !.ops[o].pc = "done"]
  /\ UNCHANGED <<calls, port, client, ui>>

\* handleConnectionSelectChange: saveSetting has stored the id;
\* updateConnectionActions is called.
SelectSaves(o) ==
  /\ store.ops[o].pc = "selectWrite"
  /\ store' = [store EXCEPT
       !.raw = SaveActiveConnectionId(@, store.ops[o].connectionId),
       !.ops[o].pc = "actions"]
  /\ UNCHANGED <<calls, port, client, ui>>

\* updateConnectionActions: chrome.storage.sync.get("connections") has
\* answered; the delete button is enabled when more than one is stored.
UpdateConnectionActions(o) ==
  /\ store.ops[o].pc = "actions"
  /\ store' = [store EXCEPT
       !.deleteEnabled = Len(StoredSettings(store.raw).connections) > 1,
       !.ops[o].pc = "done"]
  /\ UNCHANGED <<calls, port, client, ui>>

\* The keys the user types into the form.
TypedKeys == {"", "k2"}

\* The user edits the form, and the debounced saveSettings is started.
EditForm(o) ==
  /\ CanBegin(o)
  /\ \E apiKey \in TypedKeys :
       /\ apiKey # store.form.apiKey
       /\ store' = [Begin(o, "save", "") EXCEPT !.form.apiKey = apiKey]
  /\ UNCHANGED <<calls, port, client, ui>>

\* saveSettings: getSettings has answered; the connection the select shows
\* takes the form's values, the prompt the prompt select shows the text of
\* the box.
SaveSettingsReads(o) ==
  /\ store.ops[o].kind = "save" /\ store.ops[o].pc = "read"
  /\ \E settings \in {getSettings(store.raw)} :
       store' = [store EXCEPT
         !.ops[o].stored = Len(StoredSettings(store.raw).connections),
         !.ops[o].connections =
           [k \in 1..Len(settings.connections) |->
              IF settings.connections[k].id = store.select
                THEN [settings.connections[k] EXCEPT
                        !.provider = store.form.provider,
                        !.apiKey = store.form.apiKey,
                        !.baseUrl = store.form.baseUrl,
                        !.model = store.form.model]
                ELSE settings.connections[k]],
         !.ops[o].activeConnectionId = store.select,
         !.ops[o].prompts =
           [k \in 1..Len(settings.prompts) |->
              IF settings.prompts[k].id = store.promptSelect
                THEN [settings.prompts[k] EXCEPT !.content = store.systemPrompt]
                ELSE settings.prompts[k]],
         !.ops[o].activePromptId = store.promptSelect,
         !.ops[o].pc = "write"]
  /\ UNCHANGED <<calls, port, client, ui>>

\* saveSettings: saveAllSettings has stored the settings.
SaveSettingsSaves(o) ==
  /\ store.ops[o].kind = "save" /\ store.ops[o].pc = "write"
  /\ store' = [store EXCEPT
       !.raw = SavePrompts(SaveConnections(@, store.ops[o].connections,
                                           store.ops[o].activeConnectionId),
                           store.ops[o].prompts, store.ops[o].activePromptId),
       !.ops[o].pc = "done"]
  /\ UNCHANGED <<calls, port, client, ui>>

\* The change listener of the sidebar's connection select: the user picks
\* one of the connections the sidebar was given, and its id is saved.
SidebarSelect(o) ==
  /\ CanBegin(o)
  /\ \E k \in 1..Len(getSettings(store.raw).connections) :
       store' = [Begin(o, "sidebar", getSettings(store.raw).connections[k].id)
                   EXCEPT !.raw = SaveActiveConnectionId(
                                    @, getSettings(store.raw).connections[k].id),
                          !.ops[o].pc = "done"]
  /\ UNCHANGED <<calls, port, client, ui>>

\* A summarize click reads its config: getProviderConfig.  It is taken when
\* no handler is running.
ReadProviderConfig(o) ==
  /\ CanBegin(o)
  /\ \A other \in OpIds : store.ops[other].pc = "done"
  /\ store' = [Begin(o, "config", "") EXCEPT
                 !.ops[o].config = getProviderConfig(store.raw),
                 !.ops[o].pc = "done"]
  /\ UNCHANGED <<calls, port, client, ui>>

(***************************************************************************)
(* SpecSettings: the popup's handlers, two at a time, on a storage that is *)
(* fresh, holds saved connections, or holds keys of the legacy format      *)
(***************************************************************************)

MaxEvents == 3

\* The legacy keys of an installation that used the old format.
LegacyStorage(provider) ==
  [FreshStorage EXCEPT !.openai = [set |-> TRUE, apiKey |-> "k1"],
                       !.gemini = [set |-> TRUE, apiKey |-> ""],
                       !.provider = provider]

InitialStorages ==
  { FreshStorage,
    SaveConnections(FreshStorage,
                    <<Connection("default_openai", "openai", "k1"),
                      Connection("default_gemini", "gemini", "")>>,
                    "default_gemini"),
    SaveConnections(FreshStorage,
                    <<Connection("default_gemini", "gemini", "k1")>>,
                    "default_openai"),
    LegacyStorage("openai"),
    LegacyStorage("gemini") }

InitSettings ==
  /\ calls = [id \in CallIds |-> NoCall]
  /\ port = NoPort
  /\ client = NoClient
  /\ ui = NoUi
  /\ \E raw \in InitialStorages : store = LoadedPopup(raw, MaxEvents)

NextSettings ==
  \/ \E o \in OpIds : ClickAdd(o)
  \/ \E o \in OpIds : AddConnectionReads(o)
  \/ \E o \in OpIds : AddConnectionSaves(o)
  \/ \E o \in OpIds : ClickDelete(o)
  \/ \E o \in OpIds : DeleteConnectionReads(o)
  \/ \E o \in OpIds : DeleteConnectionSaves(o)
  \/ \E o \in OpIds : ChangeSelect(o)
  \/ \E o \in OpIds : SelectReads(o)
  \/ \E o \in OpIds : SelectSaves(o)
  \/ \E o \in OpIds : UpdateConnectionActions(o)
  \/ \E o \in OpIds : EditForm(o)
  \/ \E o \in OpIds : SaveSettingsReads(o)
  \/ \E o \in OpIds : SaveSettingsSaves(o)
  \/ \E o \in OpIds : SidebarSelect(o)
  \/ \E o \in OpIds : ReadProviderConfig(o)

SpecSettings == InitSettings /\ [][NextSettings]_vars

(***************************************************************************)
(* The popup's prompt handlers (part_001)                                  *)
(***************************************************************************)

\* if (promptId === 'default') return
MutDeleteAny(promptId) == FALSE
IsDefault(promptId) == promptId = "default"

\* A prompt handler is started by an event of the user.
BeginPrompt(o, kind, promptId) ==
  [store EXCEPT !.ops[o] = [NoOp EXCEPT !.kind = kind, !.pc = "read",
                                        !.promptId = promptId],
                !.eventsLeft = @ - 1]

\* The user clicks the add button of the prompts.
ClickAddPrompt(o) ==
  /\ CanBegin(o)
  /\ store' = BeginPrompt(o, "addPrompt", "")
  /\ UNCHANGED <<calls, port, client, ui>>

\* handleAddPrompt: getSettings has answered; the new prompt is appended to
\* what it answered.
AddPromptReads(o) ==
  /\ store.ops[o].kind = "addPrompt" /\ store.ops[o].pc = "read"
  /\ \E newId \in {"prompt_" \o ToString(store.clock)} :
       store' = [store EXCEPT
         !.clock = @ + 1,
         !.ops[o].pc = "write",
         !.ops[o].prompts = Append(getSettings(store.raw).prompts, Prompt(newId, "")),
         !.ops[o].activePromptId = newId]
  /\ UNCHANGED <<calls, port, client, ui>>

\* handleAddPrompt: saveAllSettings has stored the list; the select and the
\* box show the new prompt, updatePromptActions(newId) is called.
AddPromptSaves(o) ==
  /\ store.ops[o].kind = "addPrompt" /\ store.ops[o].pc = "write"
  /\ store' = [store EXCEPT
       !.raw = SavePrompts(@, store.ops[o].prompts, store.ops[o].activePromptId),
       !.promptOptions = Ids(store.ops[o].prompts),
       !.promptSelect = store.ops[o].activePromptId,
       !.systemPrompt = "",
       !.deletePromptEnabled = ~IsDefault(store.ops[o].activePromptId),
       !.ops[o].pc = "done"]
  /\ UNCHANGED <<calls, port, client, ui>>

\* The user clicks the delete button of the prompts: the handler takes the
\* select's value, and returns when it is the default prompt's.
ClickDeletePrompt(o) ==
  /\ CanBegin(o)
  /\ store.deletePromptEnabled
  /\ store' = [BeginPrompt(o, "deletePrompt", store.promptSelect) EXCEPT
                 !.ops[o].pc = IF IsDefault(store.promptSelect) THEN "done"
                               ELSE "read"]
  /\ UNCHANGED <<calls, port, client, ui>>

\* handleDeletePrompt: getSettings has answered; the prompt is filtered out
\* of what it answered.
DeletePromptReads(o) ==
  /\ store.ops[o].kind = "deletePrompt" /\ store.ops[o].pc = "read"
  /\ store' = [store EXCEPT
       !.ops[o].prompts = SelectSeq(getSettings(store.raw).prompts,
                                    LAMBDA q : q.id # store.ops[o].promptId),
       !.ops[o].activePromptId = "default",
       !.ops[o].pc = "write"]
  /\ UNCHANGED <<calls, port, client, ui>>

\* handleDeletePrompt: saveAllSettings has stored the list; the select is
\* rendered with the default prompt selected, and the box takes the
\* default prompt's content (reading it throws when the list has none).
DeletePromptSaves(o) ==
  /\ store.ops[o].kind = "deletePrompt" /\ store.ops[o].pc = "write"
  /\ \E defaults \in {SelectSeq(store.ops[o].prompts, LAMBDA q : IsDefault(q.id))} :
       store' = [store EXCEPT
         !.raw = SavePrompts(@, store.ops[o].prompts, store.ops[o].activePromptId),
         !.promptOptions = Ids(store.ops[o].prompts),
         !.promptSelect = SelectValue(Ids(store.ops[o].prompts),
                                      store.ops[o].activePromptId),
         !.systemPrompt = IF defaults = <<>> THEN @ ELSE Head(defaults).content,
         !.deletePromptEnabled = IF defaults = <<>> THEN @ ELSE FALSE,
         !.ops[o].pc = "done"]
  /\ UNCHANGED <<calls, port, client, ui>>

\* The user picks an option of the prompt select.
ChangePromptSelect(o) ==
  /\ CanBegin(o)
  /\ \E k \in 1..Len(store.promptOptions) :
       /\ store.promptOptions[k] # store.promptSelect
       /\ store' = [BeginPrompt(o, "selectPrompt", "") EXCEPT
                      !.promptSelect = store.promptOptions[k]]
  /\ UNCHANGED <<calls, port, client, ui>>

\* handlePromptSelectChange: getSettings has answered; the select's value
\* is taken now; when the settings hold it the box is filled and the id is
\* saved.
PromptSelectReads(o) ==
  /\ store.ops[o].kind = "selectPrompt" /\ store.ops[o].pc = "read"
  /\ \E found \in {SelectSeq(getSettings(store.raw).prompts,
                             LAMBDA q : q.id = store.promptSelect)} :
       store' =
         IF found # <<>>
           THEN [store EXCEPT !.systemPrompt = Head(found).content,
                              !.ops[o].promptId = store.promptSelect,
                              !.ops[o].pc = "write"]
           ELSE [store EXCEPT !.ops[o].pc = "done"]
  /\ UNCHANGED <<calls, port, client, ui>>

\* handlePromptSelectChange: saveSetting has stored the id;
\* updatePromptActions(promptId) is called.
PromptSelectSaves(o) ==
  /\ store.ops[o].kind = "selectPrompt" /\ store.ops[o].pc = "write"
  /\ store' = [store EXCEPT
       !.raw = SaveActivePromptId(@, store.ops[o].promptId),
       !.deletePromptEnabled = ~IsDefault(store.ops[o].promptId),
       !.ops[o].pc = "done"]
  /\ UNCHANGED <<calls, port, client, ui>>

\* The texts the user types into the prompt's box.
TypedPrompts == {"", "brief"}

\* The user edits the prompt's text, and the debounced saveSettings is
\* started.
EditPrompt(o) ==
  /\ CanBegin(o)
  /\ \E content \in TypedPrompts :
       /\ content # store.systemPrompt
       /\ store' = [Begin(o, "save", "") EXCEPT !.systemPrompt = content]
  /\ UNCHANGED <<calls, port, client, ui>>

(***************************************************************************)
(* SpecPrompts: the popup's prompt handlers and saveSettings, two at a     *)
(* time, on a storage that is fresh, holds saved prompts, or holds the     *)
(* systemPrompt of the legacy format                                       *)
(***************************************************************************)

MaxPromptEvents == 4

PromptStorages ==
  { FreshStorage,
    SavePrompts(FreshStorage, <<Prompt("default", ""), Prompt("prompt_0", "short")>>,
                "prompt_0"),
    [FreshStorage EXCEPT !.systemPrompt = "old"] }

InitPrompts ==
  /\ calls = [id \in CallIds |-> NoCall]
  /\ port = NoPort
  /\ client = NoClient
  /\ ui = NoUi
  /\ \E raw \in PromptStorages : store = LoadedPopup(raw, MaxPromptEvents)

NextPrompts ==
  \/ \E o \in OpIds : ClickAddPrompt(o)
  \/ \E o \in OpIds : AddPromptReads(o)
  \/ \E o \in OpIds : AddPromptSaves(o)
  \/ \E o \in OpIds : ClickDeletePrompt(o)
  \/ \E o \in OpIds : DeletePromptReads(o)
  \/ \E o \in OpIds : DeletePromptSaves(o)
  \/ \E o \in OpIds : ChangePromptSelect(o)
  \/ \E o \in OpIds : PromptSelectReads(o)
  \/ \E o \in OpIds : PromptSelectSaves(o)
  \/ \E o \in OpIds : EditPrompt(o)
  \/ \E o \in OpIds : SaveSettingsReads(o)
  \/ \E o \in OpIds : SaveSettingsSaves(o)

SpecPrompts == InitPrompts /\ [][NextPrompts]_vars

(***************************************************************************)
(* The summarize click: handleSummarizeClick of the sidebar (content.js)   *)
(* and handleSummarize of the popup (part_001)                             *)
(*                                                                         *)
(* The handler's own summarize call is the provider call of the same       *)
(* place in calls; the port to the background is left out here, the call   *)
(* is dispatched in the step that calls ApiService.summarize.              *)
(***************************************************************************)

CallOf(c) == IF c = "c1" THEN "A" ELSE "B"

\* if (!config.apiKey)
MutKeyNotChecked(config) == FALSE
MissingKey(config) == config.apiKey = ""

\* if (manualTranscript) / if (!transcript) on the trimmed text of the box
UseManual(manual) == Trim(manual) # <<>>

\* catch (err) and finally: the error is shown, isLoading is false again.
Fail(u, c, error) ==
  [u EXCEPT !.message = error, !.isLoading = FALSE,
            !.h[c].pc = "ended", !.h[c].error = error]

\* The handler calls ApiService.summarize with the transcript.
Summarizing(u, c, transcript) ==
  [u EXCEPT !.message = "loading", !.h[c].pc = "summarizing",
            !.h[c].summarized = TRUE, !.h[c].transcript = transcript]

\* The call ApiService.summarize makes in the background for the handler.
SummarizeCall(config, transcript, events) ==
  Dispatch([PlannedCall(config.provider, events) EXCEPT
              !.proxied = TRUE, !.streaming = TRUE, !.transcript = transcript])

\* The user clicks the summarize button: with isLoading set the handler
\* returns, else it asks for the config.
Click(c) ==
  /\ c \in ui.clicks
  /\ ui.h[c].pc = "none"
  /\ c = "c2" => ui.h["c1"].pc # "none"
  /\ ui' = [ui EXCEPT !.clicks = @ \ {c}, !.reset = FALSE,
                      !.h[c].pc = IF ui.isLoading THEN "ended" ELSE "config"]
  /\ UNCHANGED <<calls, port, client, store>>

\* getProviderConfig has answered.  Without a key the message is shown and
\* the handler returns, in the sidebar through its finally.  With one the
\* sidebar sets isLoading, empties and hides the result panel, and takes
\* the manual transcript or calls getTranscript; the popup asks for the
\* settings.
ConfigRead(c) ==
  /\ ui.h[c].pc = "config"
  /\ \E config \in {getProviderConfig(store.raw)} :
       ui' =
         IF MissingKey(config)
           THEN [ui EXCEPT !.message = "noApiKey",
                           !.isLoading = IF ui.context = "sidebar" THEN FALSE ELSE @,
                           !.h[c].config = config, !.h[c].pc = "ended"]
         ELSE IF ui.context = "popup"
           THEN [ui EXCEPT !.h[c].config = config, !.h[c].pc = "settings"]
         ELSE IF UseManual(ui.manual)
           THEN [ui EXCEPT !.isLoading = TRUE, !.message = "usingManual",
                           !.result = <<>>, !.hidden = TRUE,
                           !.h[c].config = config, !.h[c].pc = "settings",
                           !.h[c].transcript = Trim(ui.manual)]
         ELSE [ui EXCEPT !.isLoading = TRUE, !.message = "extracting",
                         !.result = <<>>, !.hidden = TRUE,
                         !.h[c].config = config, !.h[c].pc = "extracting",
                         !.h[c].extract = "start"]
  /\ UNCHANGED <<calls, port, client, store>>

\* The sidebar's getTranscript has returned or thrown.
ExtractionReturns(c) ==
  /\ ui.h[c].pc = "extracting"
  /\ ui.h[c].extract \in {"done", "failed"}
  /\ ui' = IF ui.h[c].extract = "failed" THEN Fail(ui, c, ui.h[c].error)
           ELSE [ui EXCEPT !.message = "loading", !.h[c].pc = "settings"]
  /\ UNCHANGED <<calls, port, client, store>>

\* getSettings has answered.  The sidebar calls summarize.  The popup sets
\* isLoading, hides the result and, with a manual transcript, calls
\* summarize; without one it asks for the active tab.
SettingsRead(c) ==
  /\ ui.h[c].pc = "settings"
  /\ IF ui.context = "popup" /\ ~UseManual(ui.manual)
       THEN /\ ui' = [ui EXCEPT !.isLoading = TRUE, !.message = "extracting",
                                !.hidden = TRUE, !.h[c].pc = "tab"]
            /\ UNCHANGED calls
       ELSE \E transcript \in {IF ui.context = "popup" THEN Trim(ui.manual)
                               ELSE ui.h[c].transcript} :
            \E events \in ConcStreams(CallOf(c), ui.h[c].config.provider) :
              /\ ui' = [Summarizing(ui, c, transcript) EXCEPT
                         !.isLoading = TRUE,
                         !.hidden = IF ui.context = "popup" THEN TRUE ELSE @]
              /\ calls' = [calls EXCEPT ![CallOf(c)] =
                             SummarizeCall(ui.h[c].config, transcript, events)]
  /\ UNCHANGED <<port, client, store>>

\* The popup: chrome.tabs.query has answered.  A tab that is no watch page
\* ends the handler; else the tab is asked for the transcript.
TabQueried(c) ==
  /\ ui.h[c].pc = "tab"
  /\ ui' = IF ~ui.onYouTube THEN Fail(ui, c, "notYoutube")
           ELSE [ui EXCEPT !.h[c].pc = "asked", !.h[c].asked = TRUE]
  /\ UNCHANGED <<calls, port, client, store>>

\* What the tab answers to getTranscript: nothing or a failure, a
\* transcript that is blank, a transcript.
TabAnswers ==
  { [success |-> FALSE, transcript |-> <<>>],
    [success |-> TRUE, transcript |-> <<" ">>],
    [success |-> TRUE, transcript |-> Hi] }

\* The popup: the tab has answered (or chrome.tabs.sendMessage has
\* failed).  Without a transcript the handler ends, with one it calls
\* summarize.
TabResponds(c) ==
  /\ ui.h[c].pc = "asked"
  /\ \E response \in TabAnswers :
       IF ~response.success \/ Trim(response.transcript) = <<>>
         THEN /\ ui' = Fail(ui, c, "noTranscript")
              /\ UNCHANGED calls
         ELSE \E events \in ConcStreams(CallOf(c), ui.h[c].config.provider) :
                /\ ui' = Summarizing(ui, c, response.transcript)
                /\ calls' = [calls EXCEPT ![CallOf(c)] =
                               SummarizeCall(ui.h[c].config, response.transcript,
                                             events)]
  /\ UNCHANGED <<port, client, store>>

\* The fragments a handler's onChunk callback was given so far, put
\* together: its fullSummary.
FullSummary(c) ==
  Concat(SubSeq(calls[CallOf(c)].emitted, 1, ui.h[c].shown))

\* The handler's onChunk callback is given the next fragment: the first one
\* makes the result panel visible, each one puts what has come so far into
\* the panel.
ShowChunk(c) ==
  /\ ui.h[c].pc = "summarizing"
  /\ ui.h[c].shown < Len(calls[CallOf(c)].emitted)
  /\ ui' = [ui EXCEPT
       !.hidden = IF FullSummary(c) = <<>> THEN FALSE ELSE @,
       !.message = IF FullSummary(c) = <<>> THEN "streaming" ELSE @,
       !.result = FullSummary(c) \o calls[CallOf(c)].emitted[ui.h[c].shown + 1],
       !.h[c].shown = @ + 1]
  /\ UNCHANGED <<calls, port, client, store>>

\* summarize has returned or thrown, after its fragments were given to
\* onChunk: the summary is put into the result panel and the panel made
\* visible, or the error is shown, and the finally sets isLoading to false.
SummarizeSettles(c) ==
  /\ ui.h[c].pc = "summarizing"
  /\ calls[CallOf(c)].pc \in {"returned", "rejected"}
  /\ ui.h[c].shown = Len(calls[CallOf(c)].emitted)
  /\ ui' = [ui EXCEPT
       !.message = IF calls[CallOf(c)].pc = "returned" THEN "complete" ELSE "error",
       !.result = IF calls[CallOf(c)].pc = "returned" THEN calls[CallOf(c)].result
                  ELSE @,
       !.hidden = IF calls[CallOf(c)].pc = "returned" THEN FALSE ELSE @,
       !.isLoading = FALSE,
       !.h[c].pc = "ended"]
  /\ UNCHANGED <<calls, port, client, store>>

\* The page has gone to another video and the observer's timer has fired:
\* the result panel is emptied and hidden, the status and the
\* manual-transcript box are reset.
Navigate ==
  /\ ui.context = "sidebar"
  /\ ui.willNavigate
  /\ ui' = [ui EXCEPT !.result = <<>>, !.hidden = TRUE, !.message = "ready",
                      !.manual = <<>>, !.willNavigate = FALSE, !.reset = TRUE]
  /\ UNCHANGED <<calls, port, client, store>>

(***************************************************************************)
(* SpecClick: a click on the summarize button of the sidebar or the        *)
(* popup, with and without a key, a manual transcript, a video id, caption *)
(* tracks                                                                  *)
(***************************************************************************)

\* The clicks of a run.
Clicked == {"c1"}

\* The storages of the clicks: nothing saved (the default connection has
\* no key), a connection with a key, a Gemini connection with a key.
ClickStorages ==
  { FreshStorage,
    SaveConnections(FreshStorage,
                    <<Connection("default_openai", "openai", "k1"),
                      Connection("default_gemini", "gemini", "")>>,
                    "default_openai"),
    SaveConnections(FreshStorage,
                    <<Connection("default_openai", "openai", ""),
                      Connection("default_gemini", "gemini", "k1")>>,
                    "default_gemini") }

\* The manual-transcript box: empty, blank, a text with blanks around it.
ManualTexts == { <<>>, <<" ", "\n">>, <<" ">> \o Hi \o <<"\n">> }

\* The caption tracks of the page: none, or an auto-generated one beside a
\* manual one.
ClickTracks ==
  { <<>>,
    <<[languageCode |-> "en", kind |-> "asr", baseUrl |-> 1],
      [languageCode |-> "vi", kind |-> "", baseUrl |-> 2]>> }

InitClick ==
  /\ calls = [id \in CallIds |-> NoCall]
  /\ port = NoPort
  /\ client = NoClient
  /\ \E raw \in ClickStorages : store = [NoStore EXCEPT !.raw = raw]
  /\ \E context \in {"sidebar", "popup"}, manual \in ManualTexts,
        hasVideoId \in BOOLEAN, tracks \in ClickTracks, onYouTube \in BOOLEAN :
       /\ context = "sidebar" => onYouTube
       /\ context = "popup" => hasVideoId /\ tracks = <<>>
       /\ ui = [NoUi EXCEPT !.context = context, !.manual = manual,
                            !.hasVideoId = hasVideoId, !.tracks = tracks,
                            !.onYouTube = onYouTube,
                            !.documents = {<<>>, <<El("text", <<AAndBC>>)>>},
                            !.clicks = Clicked]

NextClick ==
  \/ \E c \in ClickIds : Click(c)
  \/ \E c \in ClickIds : ConfigRead(c)
  \/ \E c \in ClickIds : GetTranscriptStep(c)
  \/ \E c \in ClickIds : ExtractionReturns(c)
  \/ \E c \in ClickIds : SettingsRead(c)
  \/ \E c \in ClickIds : TabQueried(c)
  \/ \E c \in ClickIds : TabResponds(c)
  \/ \E id \in CallIds : CallStep(id)
  \/ \E c \in ClickIds : ShowChunk(c)
  \/ \E c \in ClickIds : SummarizeSettles(c)

SpecClick == InitClick /\ [][NextClick]_vars

(***************************************************************************)
(* SpecSession: two clicks on the summarize button, the second one any     *)
(* time after the first, and in the sidebar a navigation to another video  *)
(* at any time; each response is read as one chunk                         *)
(***************************************************************************)

InitSession ==
  /\ calls = [id \in CallIds |-> NoCall]
  /\ port = NoPort
  /\ client = NoClient
  /\ store = [NoStore EXCEPT !.raw =
       SaveConnections(FreshStorage,
                       <<Connection("default_openai", "openai", "k1")>>,
                       "default_openai")]
  /\ \E context \in {"sidebar", "popup"}, manual \in {<<>>, Hi} :
       /\ context = "sidebar" => manual # <<>>
       /\ ui = [NoUi EXCEPT !.context = context, !.manual = manual,
                            !.tracks = <<[languageCode |-> "en", kind |-> "",
                                          baseUrl |-> 1]>>,
                            !.documents = {<<El("text", <<AAndBC>>)>>},
                            !.clicks = ClickIds,
                            !.willNavigate = (context = "sidebar")]

\* reader.read() yields all that is still to come as one chunk.
ReadWhole(id) ==
  /\ ReadChunk(id)
  /\ calls'[id].body = <<>>

NextSession ==
  \/ \E c \in ClickIds : Click(c)
  \/ \E c \in ClickIds : ConfigRead(c)
  \/ \E c \in ClickIds : GetTranscriptStep(c)
  \/ \E c \in ClickIds : ExtractionReturns(c)
  \/ \E c \in ClickIds : SettingsRead(c)
  \/ \E c \in ClickIds : TabQueried(c)
  \/ \E c \in ClickIds : TabResponds(c)
  \/ \E id \in CallIds : HttpOk(id)
  \/ \E id \in CallIds : ReadWhole(id)
  \/ \E id \in CallIds : ReadDone(id)
  \/ \E c \in ClickIds : ShowChunk(c)
  \/ \E c \in ClickIds : SummarizeSettles(c)
  \/ Navigate

SpecSession == InitSession /\ [][NextSession]_vars

(***************************************************************************)
(* What a response is to yield                                             *)
(***************************************************************************)

IsPrefix(s, t) == Len(s) <= Len(t) /\ SubSeq(t, 1, Len(s)) = s

\* The non-empty choices[0].delta.content values of the data lines of an
\* OpenAI stream up to [DONE], in stream order.
RECURSIVE OpenAIContents(_)
OpenAIContents(events) ==
  IF events = <<>> THEN <<>>
  ELSE IF Head(events).kind = "done" THEN <<>>
  ELSE IF Head(events).kind \in {"content", "crlf"} /\ Head(events).text # <<>>
    THEN <<Head(events).text>> \o OpenAIContents(Tail(events))
  ELSE OpenAIContents(Tail(events))

\* The non-empty text values of the elements of a Gemini array, in order.
RECURSIVE GeminiTexts(_)
GeminiTexts(events) ==
  IF events = <<>> THEN <<>>
  ELSE IF Head(events).kind = "text" /\ Head(events).text # <<>>
    THEN <<Head(events).text>> \o GeminiTexts(Tail(events))
  ELSE GeminiTexts(Tail(events))

Fragments(provider, events) ==
  IF provider = "openai" THEN OpenAIContents(events) ELSE GeminiTexts(events)

Kinds(events) == {events[i].kind : i \in 1..Len(events)}

\* Newline-terminated data lines (and comment lines), ended by data: [DONE].
WellFormedOpenAI(events) ==
  /\ events # <<>>
  /\ events[Len(events)].kind = "done"
  /\ \A i \in 1..(Len(events) - 1) : events[i].kind \in {"content", "crlf", "comment"}

\* An array whose elements all are candidates objects.
WellFormedGemini(events) == Kinds(events) = {"text"}

\* A stream with a data line that does not parse or has no choices, ended
\* by data: [DONE].
HasBadDataLine(events) ==
  /\ events # <<>>
  /\ events[Len(events)].kind = "done"
  /\ \A i \in 1..(Len(events) - 1) : events[i].kind # "done"
  /\ Kinds(events) \cap {"malformed", "nochoices", "null"} # {}

(***************************************************************************)
(* C1                                                                      *)
(***************************************************************************)

\* C1: for every well-formed OpenAI SSE stream and every way of cutting it
\* into chunks, callOpenAI returns the concatenation, in stream order, of the
\* non-empty choices[0].delta.content values and has called onChunk exactly
\* once per such value, in that order.
C1_OpenAIChunkInvariance ==
  \A id \in CallIds :
    (/\ calls[id].provider = "openai"
     /\ calls[id].pc = "returned"
     /\ WellFormedOpenAI(calls[id].events))
    => /\ calls[id].result = Concat(OpenAIContents(calls[id].events))
       /\ calls[id].emitted = OpenAIContents(calls[id].events)

\* A well-formed stream of several values has been returned from after a
\* chunk had ended inside a line.
C1_Witness ==
  \E id \in CallIds :
    /\ calls[id].provider = "openai"
    /\ calls[id].pc = "returned"
    /\ WellFormedOpenAI(calls[id].events)
    /\ calls[id].carried
    /\ Len(calls[id].emitted) >= 2

(***************************************************************************)
(* C2                                                                      *)
(***************************************************************************)

\* C2: for every well-formed Gemini array and every way of cutting it into
\* chunks, callGemini returns the concatenation, in order, of the text
\* values of all elements, also when a text holds a brace.
C2_GeminiChunkInvariance ==
  \A id \in CallIds :
    (/\ calls[id].provider = "gemini"
     /\ calls[id].pc = "returned"
     /\ WellFormedGemini(calls[id].events))
    => calls[id].result = Concat(GeminiTexts(calls[id].events))

(***************************************************************************)
(* C3                                                                      *)
(***************************************************************************)

\* C3: once callOpenAI has processed a [DONE] line it emits no further
\* fragment: no later step makes an onChunk call or extends the accumulated
\* string.
C3_NothingAfterDone ==
  [][\A id \in CallIds :
       (calls[id].provider = "openai" /\ calls[id].sawDone)
       => /\ calls'[id].emitted = calls[id].emitted
          /\ calls'[id].fullContent = calls[id].fullContent]_vars

(***************************************************************************)
(* C4                                                                      *)
(***************************************************************************)

\* C4: at every point of a streaming call (callOpenAI, callGemini, the
\* proxied summarize) the accumulated string is the concatenation, in call
\* order, of the fragments passed to onChunk so far, and the value the call
\* resolves with is that accumulation.
C4_AccumulationIsConcatenation ==
  /\ \A id \in CallIds :
       /\ calls[id].fullContent = Concat(calls[id].emitted)
       /\ calls[id].pc = "returned" => calls[id].result = Concat(calls[id].emitted)
  /\ client.fullText = Concat(client.received)
  /\ client.pc = "resolved" => client.value = Concat(client.received)

\* A proxied call has resolved after the page's onChunk got two fragments.
C4_Witness ==
  /\ client.pc = "resolved"
  /\ Len(client.received) >= 2
  /\ \E id \in CallIds : calls[id].pc = "returned" /\ Len(calls[id].emitted) >= 2

(***************************************************************************)
(* C5                                                                      *)
(***************************************************************************)

\* The chunks of the messages of a queue, in order.
QueuedChunks(messages) ==
  LET chunkAt == SelectSeq([i \in 1..Len(messages) |-> i],
                           LAMBDA i : messages[i].success /\ ~messages[i].done)
  IN  [k \in 1..Len(chunkAt) |-> messages[chunkAt[k]].chunk]

\* C5: in a proxied streaming summarize the caller's onChunk gets the
\* fragments in the order the background's decoder emitted them, none
\* dropped, none twice: what it has got, followed by what is on its way, is
\* what the decoder has emitted; and the promise resolves only when all of
\* them have been delivered.
C5_ProxiedOrder ==
  \A id \in CallIds :
    calls[id].proxied
    => /\ IsPrefix(client.received, calls[id].emitted)
       /\ port.open => client.received \o QueuedChunks(port.toClient) = calls[id].emitted
       /\ client.pc = "resolved" => client.received = calls[id].emitted

\* The promise has resolved after two fragments of a call one of whose
\* chunks had ended inside a line or an element.
C5_Witness ==
  /\ client.pc = "resolved"
  /\ Len(client.received) >= 2
  /\ \E id \in CallIds : calls[id].proxied /\ calls[id].carried

(***************************************************************************)
(* C6                                                                      *)
(***************************************************************************)

\* C6: in the callOpenAI stream a data line that does not parse as JSON, or
\* has no choices array, makes no onChunk call and does not reject the call,
\* and every valid data line after it and before [DONE] is emitted: the
\* onChunk calls are those of the valid lines, in order.
C6_BadLineSkipped ==
  \A id \in CallIds :
    (calls[id].provider = "openai" /\ HasBadDataLine(calls[id].events))
    => /\ ~calls[id].threw
       /\ IsPrefix(calls[id].emitted, OpenAIContents(calls[id].events))
       /\ calls[id].pc = "returned"
          => calls[id].emitted = OpenAIContents(calls[id].events)

\* A stream with bad lines before and between valid ones has been returned.
C6_Witness ==
  \E id \in CallIds :
    /\ calls[id].provider = "openai"
    /\ HasBadDataLine(calls[id].events)
    /\ calls[id].pc = "returned"
    /\ Len(calls[id].emitted) >= 2

(***************************************************************************)
(* C7                                                                      *)
(***************************************************************************)

\* C7: in the callGemini stream a brace-balanced span that fails JSON
\* parsing is dropped with no emission and no rejection, and every
\* well-formed element after it is emitted.
C7_BadSpanDropped ==
  \A id \in CallIds :
    (calls[id].provider = "gemini" /\ "malformed" \in Kinds(calls[id].events))
    => /\ ~calls[id].threw
       /\ calls[id].pc = "returned"
          => calls[id].emitted = GeminiTexts(calls[id].events)

(***************************************************************************)
(* C8                                                                      *)
(***************************************************************************)

\* C8: when the response is not ok, callOpenAI and callGemini make no
\* onChunk call and do not read the body as a stream, and reject with the
\* body's error.message when the body is JSON that carries one, otherwise
\* with "<Provider> API error: <status>".
C8_ErrorMapping ==
  \A id \in CallIds :
    calls[id].status # <<>>
    => /\ calls[id].pc = "rejected"
       /\ calls[id].emitted = <<>>
       /\ calls[id].body = ResponseBody(calls[id].provider, calls[id].events)
       /\ calls[id].error =
            IF calls[id].errorBody.message # <<>>
              THEN calls[id].errorBody.message
              ELSE GenericMessage(calls[id].provider, calls[id].status)

(***************************************************************************)
(* C9                                                                      *)
(***************************************************************************)

\* C9: a proxied streaming summarize that fails settles as rejected: once
\* the port has been disconnected before a done message arrived, the
\* promise is not left pending.
C9_DisconnectRejects ==
  port.lost => client.pc # "pending"

(***************************************************************************)
(* C10                                                                     *)
(***************************************************************************)

\* C10: two calls in flight at the same time, their chunks arriving in any
\* interleaving, each produce the fragments and the final string they
\* produce when run alone: each call's fragments are, at every point, the
\* first of its own response's, all of them when it returns, and its result
\* is their concatenation.
C10_CallsIndependent ==
  \A id \in CallIds :
    /\ IsPrefix(calls[id].emitted, Fragments(calls[id].provider, calls[id].events))
    /\ calls[id].pc = "returned"
       => /\ calls[id].emitted = Fragments(calls[id].provider, calls[id].events)
          /\ calls[id].result = Concat(calls[id].emitted)

\* Both calls have returned their fragment, each after a chunk that ended
\* with text left in its buffer.
C10_Witness ==
  \A id \in CallIds :
    /\ calls[id].pc = "returned"
    /\ calls[id].carried
    /\ calls[id].emitted # <<>>

(***************************************************************************)
(* C11                                                                     *)
(***************************************************************************)

\* C11: a summarize call issues at most one request to the provider,
\* direct or proxied through the background: none for a provider it does
\* not know, and exactly one for openai and gemini from the moment
\* summarize has run, which stays one after a response that is not ok, a
\* fetch that failed, and a body or a line that did not parse.
C11_OneRequest ==
  \A id \in CallIds :
    /\ calls[id].requests <= 1
    /\ calls[id].pc # "idle"
       => calls[id].requests = IF calls[id].provider \in {"openai", "gemini"} THEN 1 ELSE 0
    /\ calls[id].pc = "idle" => calls[id].requests = 0

\* A proxied call has failed on a response that was not ok, the page's
\* promise has been rejected with it, and one request was issued.
C11_Witness ==
  \E id \in CallIds :
    /\ calls[id].proxied
    /\ calls[id].pc = "rejected"
    /\ calls[id].status # <<>>
    /\ calls[id].requests = 1
    /\ client.pc = "rejected"

(***************************************************************************)
(* C12                                                                     *)
(***************************************************************************)

\* C12: the request streams (stream: true, streamGenerateContent) and the
\* body is read by the stream decoder exactly when the caller of summarize
\* gave an onChunk, direct or proxied; without one the request does not
\* stream, no fragment is emitted, and a body that is JSON yields its text,
\* or "No summary generated." when it has none.
C12_StreamsIffCallback ==
  \A id \in CallIds :
    (calls[id].provider \in {"openai", "gemini"} /\ calls[id].pc # "idle")
    => /\ calls[id].request.stream = client.onChunk
       /\ calls[id].request.method =
            IF calls[id].provider = "openai" THEN ChatCompletions
            ELSE IF client.onChunk THEN StreamGenerateContent
            ELSE GenerateContent
       /\ calls[id].pc = "read" => client.onChunk
       /\ calls[id].pc = "json" => ~client.onChunk
       /\ ~client.onChunk
          => /\ calls[id].emitted = <<>>
             /\ client.received = <<>>
             \* the body has been read, and it was JSON
             /\ (calls[id].body = <<>> /\ calls[id].events[1].kind # "html")
                => /\ calls[id].pc = "returned"
                   /\ calls[id].result =
                        IF calls[id].events[1].text # <<>>
                          THEN calls[id].events[1].text
                          ELSE NoSummaryGenerated

(***************************************************************************)
(* C13                                                                     *)
(***************************************************************************)

\* C13: the transcript in the request is the one given when that is no
\* longer than the provider's limit, and else its first limit characters
\* followed by "...[truncated]"; it is never longer than the limit and the
\* marker together.
C13_Truncation ==
  \A id \in CallIds :
    calls[id].requests > 0
    => LET given == calls[id].transcript
           sent == calls[id].request.transcript
           limit == IF calls[id].provider = "openai" THEN OpenAILimit ELSE GeminiLimit
       IN  /\ Len(given) <= limit => sent = given
           /\ Len(given) > limit
              => /\ Len(sent) = limit + Len(TruncationMarker)
                 /\ \A i \in 1..limit : sent[i] = given[i]
                 /\ \A i \in 1..Len(TruncationMarker) :
                      sent[limit + i] = TruncationMarker[i]
           /\ Len(sent) <= limit + Len(TruncationMarker)

\* Requests are out with a transcript of exactly the limit, sent whole, and
\* with one a character longer, sent cut and marked.
C13_Witness ==
  \E id \in CallIds :
    /\ calls[id].requests > 0
    /\ calls[id].provider = "openai"
    /\ Len(calls[id].transcript) = OpenAILimit + 1
    /\ Len(calls[id].request.transcript) = OpenAILimit + Len(TruncationMarker)
    /\ calls[id].pc = "returned"

(***************************************************************************)
(* C14                                                                     *)
(***************************************************************************)

\* The place of a track in the order of preference: English manual,
\* Vietnamese manual, English auto-generated, Vietnamese auto-generated,
\* any manual, any auto-generated, and last a track that is none of these.
Preference(track) ==
  IF track.kind = "" THEN
    (IF track.languageCode = "en" THEN 1
     ELSE IF track.languageCode = "vi" THEN 2 ELSE 5)
  ELSE IF track.kind = "asr" THEN
    (IF track.languageCode = "en" THEN 3
     ELSE IF track.languageCode = "vi" THEN 4 ELSE 6)
  ELSE 7

\* C14: of a list that is not empty, findPreferredTrack returns the first
\* track, in list order, of those that satisfy the highest-priority
\* predicate any track satisfies, and the first track of the list when no
\* track satisfies a predicate.
C14_PriorityThenOrder ==
  \A c \in ClickIds :
    (ui.h[c].lookups > 0 /\ ui.tracks # <<>>)
    => \E i \in 1..Len(ui.tracks) :
         /\ ui.h[c].track = ui.tracks[i]
         /\ \A j \in 1..Len(ui.tracks) :
              \/ Preference(ui.tracks[i]) < Preference(ui.tracks[j])
              \/ Preference(ui.tracks[i]) = Preference(ui.tracks[j]) /\ i <= j

\* A Vietnamese auto-generated track stands before an English one, and the
\* English one was taken.
C14_Witness ==
  \E c \in ClickIds :
    /\ ui.h[c].lookups > 0
    /\ Len(ui.tracks) = 2
    /\ ui.tracks[1].languageCode = "vi" /\ ui.tracks[1].kind = "asr"
    /\ ui.tracks[2].languageCode = "en" /\ ui.tracks[2].kind = "asr"
    /\ ui.h[c].track = ui.tracks[2]

(***************************************************************************)
(* C15                                                                     *)
(***************************************************************************)

HasManual(tracks) == \E i \in 1..Len(tracks) : tracks[i].kind = ""
HasPreferredManual(tracks) ==
  \E i \in 1..Len(tracks) :
    tracks[i].kind = "" /\ tracks[i].languageCode \in {"en", "vi"}
HasPreferredAuto(tracks) ==
  \E i \in 1..Len(tracks) :
    tracks[i].kind = "asr" /\ tracks[i].languageCode \in {"en", "vi"}

\* C15 as stated: of a list that holds a manual track, findPreferredTrack
\* returns a manual track, whatever the languages and the order.
C15_ManualBeatsAuto ==
  \A c \in ClickIds :
    (ui.h[c].lookups > 0 /\ HasManual(ui.tracks)) => ui.h[c].track.kind = ""

\* C15: of a list that holds an English or Vietnamese manual track, or a
\* manual track and no English or Vietnamese auto-generated track,
\* findPreferredTrack returns a manual track, whatever the order; of a
\* list whose manual tracks are all of other languages and that holds an
\* English or Vietnamese auto-generated track, it returns such an
\* auto-generated track.
C15_ManualBeatsAutoOfPreferredLanguages ==
  \A c \in ClickIds :
    (ui.h[c].lookups > 0 /\ HasManual(ui.tracks))
    => IF HasPreferredManual(ui.tracks) \/ ~HasPreferredAuto(ui.tracks)
         THEN ui.h[c].track.kind = ""
         ELSE /\ ui.h[c].track.kind = "asr"
              /\ ui.h[c].track.languageCode \in {"en", "vi"}

\* An English auto-generated track stands before a Vietnamese manual one,
\* and the manual one was taken.
C15_Witness ==
  \E c \in ClickIds :
    /\ ui.h[c].lookups > 0
    /\ Len(ui.tracks) = 2
    /\ ui.tracks[1].languageCode = "en" /\ ui.tracks[1].kind = "asr"
    /\ ui.tracks[2].languageCode = "vi" /\ ui.tracks[2].kind = ""
    /\ ui.h[c].track = ui.tracks[2]

(***************************************************************************)
(* C16                                                                     *)
(***************************************************************************)

\* The five entities, and the character each stands for.
HtmlEntities == {Amp, Lt, Gt, Quot, Apos39}
HtmlEntityChar(entity) ==
  CASE entity = Amp -> "&"
    [] entity = Lt -> "<"
    [] entity = Gt -> ">"
    [] entity = Quot -> "\""
    [] entity = Apos39 -> "'"

\* The entities that stand at place i of s.
EntitiesAt(s, i) ==
  {e \in HtmlEntities : i + Len(e) - 1 <= Len(s) /\ SubSeq(s, i, i + Len(e) - 1) = e}

\* s with each of the five entities in it unescaped.
UnescapeOnce(s) ==
  LET With(at) ==
        LET n == Len(at)
            After(k) == at[k] + Len(CHOOSE e \in EntitiesAt(s, at[k]) : TRUE)
            Piece(k) ==
              IF k = 0 THEN SubSeq(s, 1, (IF n = 0 THEN Len(s) ELSE at[1] - 1))
              ELSE <<HtmlEntityChar(CHOOSE e \in EntitiesAt(s, at[k]) : TRUE)>>
                   \o SubSeq(s, After(k), IF k = n THEN Len(s) ELSE at[k + 1] - 1)
        IN  Concat([k \in 1..(n + 1) |-> Piece(k - 1)])
  IN  With(SelectSeq([i \in 1..Len(s) |-> i], LAMBDA i : EntitiesAt(s, i) # {}))

\* The fragment of an element: its text unescaped, newlines made spaces,
\* trimmed.
FragmentOf(el) ==
  LET Spaced(s) == [i \in 1..Len(s) |-> IF s[i] = "\n" THEN " " ELSE s[i]]
  IN  Trim(Spaced(UnescapeOnce(Concat(el.parts))))

RECURSIVE JoinFragments(_)
JoinFragments(fragments) ==
  IF fragments = <<>> THEN <<>>
  ELSE IF Len(fragments) = 1 THEN fragments[1]
  ELSE fragments[1] \o <<" ">> \o JoinFragments(Tail(fragments))

\* The transcript of a document: the fragments of its <text> elements, of
\* its <p> elements when it has no <text>, without the empty ones, joined
\* by one space.
ExpectedTranscript(doc) ==
  LET Named(name) == SelectSeq(doc, LAMBDA el : el.name = name)
      Kept(els) ==
        SelectSeq([k \in 1..Len(els) |-> FragmentOf(els[k])],
                  LAMBDA fragment : fragment # <<>>)
  IN  JoinFragments(Kept(IF Named("text") # <<>> THEN Named("text")
                               ELSE Named("p")))

\* C16: parseTranscriptXml returns the fragments of the <text> elements in
\* document order (of the <p> elements when there is no <text>), each with
\* the five entities unescaped, newlines made spaces and trimmed, the empty
\* ones left out, joined by one space.
C16_TranscriptOfDocument ==
  \A c \in ClickIds :
    ui.h[c].extract = "done" => ui.h[c].transcript = ExpectedTranscript(ui.h[c].doc)

(***************************************************************************)
(* C17, C18                                                                *)
(***************************************************************************)

\* The handler of click c has read a config without an API key.
KeyMissing(c) == ui.h[c].config.provider # "" /\ ui.h[c].config.apiKey = ""

\* C17: a summarize click that finds the active connection's API key empty
\* shows the missing-key message and has ended: it has looked up no caption
\* tracks, fetched no transcript, asked no tab, called no summarize (no
\* message or port to the background, no provider request, none later
\* either: the handler has ended), and isLoading is false.
C17_MissingKeyEndsTheClick ==
  \A c \in ClickIds :
    KeyMissing(c) =>
      /\ ui.h[c].pc = "ended"
      /\ ui.message = "noApiKey"
      /\ ui.h[c].extract = "none"
      /\ ui.h[c].lookups = 0
      /\ ui.h[c].fetches = 0
      /\ ~ui.h[c].asked
      /\ ~ui.h[c].summarized
      /\ calls[CallOf(c)] = NoCall
      /\ port = NoPort
      /\ client = NoClient
      /\ ~ui.isLoading

\* A click without a key has ended, in the sidebar of a page whose video
\* has caption tracks and with a text in the manual-transcript box.
C17_Witness ==
  /\ ui.context = "sidebar"
  /\ ui.tracks # <<>>
  /\ Trim(ui.manual) # <<>>
  /\ KeyMissing("c1")
  /\ ui.h["c1"].pc = "ended"

\* The handler of click c has gone past its choice between the manual
\* transcript and the automatic extraction.
PastTheBox(c) ==
  \/ ui.h[c].pc \in {"extracting", "tab", "asked", "summarizing"}
  \/ ui.context = "sidebar" /\ ui.h[c].pc = "settings"
  \/ ui.h[c].pc = "ended" /\ (ui.h[c].summarized \/ ui.h[c].error # "")

\* The automatic extraction of click c has run.
Extracted(c) ==
  ui.h[c].extract # "none" \/ ui.h[c].pc \in {"tab", "asked"} \/ ui.h[c].asked
    \/ ui.h[c].lookups > 0 \/ ui.h[c].fetches > 0

\* The automatic extraction of click c has ended without a transcript: it
\* has thrown, or it has returned an empty transcript.
ExtractionFailed(c) ==
  \/ ui.h[c].extract = "failed"
  \/ ui.h[c].extract = "done" /\ ui.h[c].transcript = <<>>
  \/ ui.context = "popup" /\ ui.h[c].error \in {"notYoutube", "noTranscript"}

\* C18: with a non-blank text in the manual-transcript box the click uses
\* the trimmed text as the transcript and looks up no caption track and
\* fetches no transcript; the automatic extraction runs only when the box
\* is blank; and a click whose extraction has failed makes no provider
\* request and ends with the error shown.
C18_ManualBypassesExtraction ==
  \A c \in ClickIds :
    /\ PastTheBox(c) /\ Trim(ui.manual) # <<>> =>
         /\ ~Extracted(c)
         /\ ui.h[c].summarized =>
              /\ ui.h[c].transcript = Trim(ui.manual)
              /\ calls[CallOf(c)].transcript = Trim(ui.manual)
    /\ Extracted(c) => Trim(ui.manual) = <<>>
    /\ ExtractionFailed(c) =>
         /\ ~ui.h[c].summarized
         /\ calls[CallOf(c)].requests = 0
         /\ ui.h[c].pc \in {"extracting", "ended"}
         /\ ui.h[c].pc = "ended" => ui.h[c].error # "" /\ ui.message = ui.h[c].error

(***************************************************************************)
(* C19                                                                     *)
(***************************************************************************)

\* C19: whatever the popup's handlers (add, delete, select, save) have
\* done, in whatever order their reads and writes of storage came, storage
\* holds at least one connection; and a handleDeleteConnection that read
\* the settings when one connection was stored takes no connection out of
\* storage.
C19_AtLeastOneConnection ==
  /\ Len(StoredSettings(store.raw).connections) >= 1
  /\ \A o \in OpIds :
       (store.ops[o].kind = "delete" /\ store.ops[o].stored = 1)
       => ~store.ops[o].removed

(***************************************************************************)
(* C20                                                                     *)
(***************************************************************************)

\* What counts as stored: the connections and the activeConnectionId that
\* were saved; for one that never was, what the legacy keys migrate to, and
\* the default when there are none.
SavedSettings(raw) ==
  LET legacy == raw.openai.set \/ raw.gemini.set
  IN  [connections |->
         IF raw.connections.set THEN raw.connections.value
         ELSE IF legacy THEN MigratedConnections(raw)
         ELSE DefaultConnections,
       activeConnectionId |->
         IF raw.activeConnectionId # "" THEN raw.activeConnectionId
         ELSE IF legacy
           THEN (IF raw.provider = "gemini" THEN "migrated_gemini" ELSE "migrated_openai")
         ELSE "default_openai"]

\* C20: getProviderConfig returns the provider, key, base URL and model of
\* the stored connection whose id is the stored activeConnectionId, of the
\* first stored connection when there is none; so a click that follows a
\* select reads the connection that was selected.
C20_ConfigOfActiveConnection ==
  [][\A o \in OpIds :
       (store'.ops[o].kind = "config" /\ store'.ops[o] # store.ops[o])
       => store'.ops[o].config =
            ConfigOf(FindConnection(SavedSettings(store'.raw).connections,
                                    SavedSettings(store'.raw).activeConnectionId))]_vars


(***************************************************************************)
(* C22                                                                     *)
(***************************************************************************)

\* The text an event of a stream carries: what the one onChunk call for its
\* line or array element is made with.
Carried(e) ==
  IF e.kind \in {"content", "crlf", "unterminated", "text"} THEN e.text ELSE <<>>

\* The number of bytes of the response read so far.
Sent(c) == Len(ResponseBody(c.provider, c.events)) - Len(c.body)

\* The place in the body where the k-th event starts.
StartOfEvent(c, k) ==
  IF c.provider = "openai" THEN Len(OpenAIBody(SubSeq(c.events, 1, k - 1)))
  ELSE 1 + Len(GeminiElements(SubSeq(c.events, 1, k)))
         - Len(Utf8Encode(GeminiEventText(c.events[k])))

\* The texts of the events of which a byte has been read, in stream order.
BegunTexts(c) ==
  LET begun == {k \in 1..Len(c.events) : StartOfEvent(c, k) < Sent(c)}
  IN  [k \in 1..Cardinality(begun) |-> Carried(c.events[k])]

\* xs can be had from ys by leaving elements out.
RECURSIVE IsSubsequence(_, _)
IsSubsequence(xs, ys) ==
  IF xs = <<>> THEN TRUE
  ELSE IF ys = <<>> THEN FALSE
  ELSE IF Head(xs) = Head(ys) THEN IsSubsequence(Tail(xs), Tail(ys))
  ELSE IsSubsequence(xs, Tail(ys))

\* C22: the onChunk calls made so far are calls for different lines (array
\* elements) of the part of the stream read so far, each with the text of
\* its line, in stream order: no line and no element has led to two calls,
\* wherever the chunks ended.  And between two chunks the buffer holds
\* nothing that has been parsed: no complete line in callOpenAI, no
\* brace-balanced span in callGemini.
C22_OneCallPerLine ==
  \A id \in CallIds :
    calls[id].pc \in {"read", "returned"} =>
      /\ IsSubsequence(calls[id].emitted, BegunTexts(calls[id]))
      /\ calls[id].provider = "openai" => PositionsOf(calls[id].buffer, {"\n"}) = <<>>
      /\ calls[id].provider = "gemini" =>
           ~ScanBraces(calls[id].buffer,
                       PositionsOf(calls[id].buffer, {"{", "}"}), 1, 0, -1).found

\* Every chunk so far has ended with the newline of a line (the closing
\* brace of an element), an onChunk call has been made, and a line that
\* carries a text is still to be read.
C22_Witness ==
  \E id \in CallIds :
    /\ calls[id].pc = "read"
    /\ ~calls[id].carried
    /\ Len(calls[id].emitted) >= 1
    /\ Len(calls[id].emitted) < Len(Fragments(calls[id].provider, calls[id].events))
    /\ calls[id].body # <<>>


(***************************************************************************)
(* C23                                                                     *)
(***************************************************************************)

IsSuffix(s, t) == Len(s) <= Len(t) /\ SubSeq(t, Len(t) - Len(s) + 1, Len(t)) = s

\* The place in the body where the k-th event ends.
EndOfEvent(c, k) ==
  StartOfEvent(c, k)
    + Len(Utf8Encode(IF c.provider = "openai" THEN OpenAIEventText(c.events[k])
                     ELSE GeminiEventText(c.events[k])))

\* The k-th event has been read in part: the last chunk has ended inside it.
CutInside(c, k) == StartOfEvent(c, k) < Sent(c) /\ Sent(c) < EndOfEvent(c, k)

\* The characters of the k-th event that have been read.
ReadOfEvent(c, k) ==
  DecodeStream(<<>>, SubSeq(ResponseBody(c.provider, c.events),
                            StartOfEvent(c, k) + 1, Sent(c))).text

\* While a chunk has ended inside an object, the object's characters read
\* so far are the end of the buffer as they came, no onChunk call has been
\* made for the object, and nothing has been raised.
IncompleteObjectKept ==
  \A id \in CallIds :
    calls[id].provider = "gemini" /\ calls[id].pc \in {"read", "rejected"}
    /\ calls[id].error = <<>> =>
      \A k \in 1..Len(calls[id].events) :
        CutInside(calls[id], k) =>
          /\ calls[id].pc = "read"
          /\ ~calls[id].threw
          /\ IsSuffix(ReadOfEvent(calls[id], k), calls[id].buffer)
          /\ IsSubsequence(calls[id].emitted,
                           [j \in 1..(k - 1) |-> Carried(calls[id].events[j])])

\* The chunk that brings the closing brace of an object the chunk before
\* had ended in has the object's text passed to onChunk.
EmittedOnceClosed ==
  \A id \in CallIds :
    calls[id].provider = "gemini" /\ calls[id].pc = "read"
    /\ calls'[id].pc \in {"read", "returned"} =>
      \A k \in 1..Len(calls[id].events) :
        (/\ CutInside(calls[id], k)
         /\ Sent(calls'[id]) >= EndOfEvent(calls[id], k)
         /\ calls[id].events[k].kind = "text"
         /\ calls[id].events[k].text # <<>>)
        => \E j \in (Len(calls[id].emitted) + 1)..Len(calls'[id].emitted) :
             calls'[id].emitted[j] = calls[id].events[k].text

\* C23: when a chunk ends while the Gemini buffer holds an object whose
\* braces are not yet balanced, callGemini has not parsed it, has emitted
\* nothing for it and raised nothing, and the buffer keeps the object's
\* characters unchanged; the object is emitted by the chunk that brings
\* its closing brace.
C23_IncompleteObjectWaits ==
  []IncompleteObjectKept /\ [][EmittedOnceClosed]_vars


(***************************************************************************)
(* C24                                                                     *)
(***************************************************************************)

\* The text of the response read so far.
TextRead(c) ==
  DecodeStream(<<>>, SubSeq(ResponseBody(c.provider, c.events), 1, Sent(c))).text

\* The text after the last newline of s.
AfterLastNewline(s) ==
  LET Cut(newlines) ==
        IF newlines = <<>> THEN s
        ELSE SubSeq(s, newlines[Len(newlines)] + 1, Len(s))
  IN  Cut(PositionsOf(s, {"\n"}))

\* The texts of the lines whose newline has been read, in stream order.
TerminatedTexts(c) ==
  LET Line(k) == Utf8Encode(OpenAIEventText(c.events[k]))
      ended == {k \in 1..Len(c.events) :
                  /\ PositionsOf(Line(k), {"\n"}) # <<>>
                  /\ StartOfEvent(c, k) + Head(PositionsOf(Line(k), {"\n"})) <= Sent(c)}
  IN  [k \in 1..Cardinality(ended) |-> Carried(c.events[k])]

\* C24: after each chunk the buffer of callOpenAI is the text read after
\* the last newline, and nothing of it has been parsed: the onChunk calls
\* made are calls for lines whose newline has been read.  When the stream
\* ends, what the buffer holds is dropped: a last data line without its
\* newline is never emitted and is not part of the result.
C24_PartialLineHeldBack ==
  \A id \in CallIds :
    calls[id].provider = "openai" /\ calls[id].pc \in {"read", "returned"} =>
      /\ calls[id].buffer = AfterLastNewline(TextRead(calls[id]))
      /\ IsSubsequence(calls[id].emitted, TerminatedTexts(calls[id]))
      /\ calls[id].pc = "returned" => calls[id].result = Concat(calls[id].emitted)

\* A stream whose last data line has no newline has been read to its end,
\* chunks having ended inside lines, and the call has returned what the
\* lines before it carried.
C24_Witness ==
  \E id \in CallIds :
    /\ calls[id].provider = "openai"
    /\ calls[id].pc = "returned"
    /\ calls[id].carried
    /\ calls[id].events[Len(calls[id].events)].kind = "unterminated"
    /\ calls[id].buffer # <<>>
    /\ calls[id].emitted = <<Hi>>


(***************************************************************************)
(* C28                                                                     *)
(***************************************************************************)

\* The working state of the decoder at the start of a chunk.
DecoderOf(c) ==
  [fullContent |-> c.fullContent, emitted |-> c.emitted, sawDone |-> c.sawDone,
   threw |-> FALSE]

\* The buffers the scan of callGemini is started on when the next chunk is
\* the first n bytes still to come.
RestartsOn(c, n) ==
  ScanRestarts(DecoderOf(c),
               StripLeading(c.buffer \o DecodeStream(c.pending, SubSeq(c.body, 1, n)).text))

\* Whatever the buffer holds and whatever the next chunk brings, every
\* restart of the scan is on a buffer strictly shorter than the one before.
RestartsShrink ==
  \A id \in CallIds :
    calls[id].provider = "gemini" /\ calls[id].pc = "read" =>
      \A n \in 1..Len(calls[id].body) :
        \E passes \in {RestartsOn(calls[id], n)} :
          \A j \in 1..(Len(passes) - 1) : Len(passes[j + 1]) < Len(passes[j])

\* C28: each restart of the brace scan of callGemini comes after the buffer
\* has become strictly shorter, so a chunk is processed in finitely many
\* passes; and once every chunk has been read (the next read signals
\* completion) the call comes to its end.
C28_ScanTerminates ==
  /\ []RestartsShrink
  /\ \A id \in CallIds :
       (calls[id].provider = "gemini" /\ calls[id].pc = "read" /\ calls[id].body = <<>>)
         ~> (calls[id].pc \in {"returned", "rejected"})

\* A Gemini call has returned after chunks in which the scan was restarted:
\* two elements have been emitted, and no chunk had ended inside an element.
C28_Witness ==
  \E id \in CallIds :
    /\ calls[id].provider = "gemini"
    /\ calls[id].pc = "returned"
    /\ ~calls[id].carried
    /\ Len(calls[id].emitted) >= 2


(***************************************************************************)
(* C29                                                                     *)
(***************************************************************************)

\* C29: findPreferredTrack returns null for the empty list only, and for
\* any other list one of its tracks; so a getTranscript that has found
\* caption tracks has taken one of them and has not raised `No suitable
\* caption track found`.
C29_SomeTrackIsTaken ==
  /\ findPreferredTrack(ui.tracks) = NoTrack <=> ui.tracks = <<>>
  /\ ui.tracks # <<>> =>
       \E i \in 1..Len(ui.tracks) : findPreferredTrack(ui.tracks) = ui.tracks[i]
  /\ \A c \in ClickIds :
       /\ ui.h[c].error # "noSuitableCaptions"
       /\ ui.h[c].lookups > 0 /\ ui.tracks # <<>> =>
            /\ ui.h[c].extract # "failed" \/ ui.h[c].error = "fetchFailed"
            /\ \E i \in 1..Len(ui.tracks) : ui.h[c].track = ui.tracks[i]

\* getTranscript has taken the first of two tracks none of which is a
\* manual or an auto-generated one.
C29_Witness ==
  \E c \in ClickIds :
    /\ Len(ui.tracks) = 2
    /\ \A i \in 1..Len(ui.tracks) : ui.tracks[i].kind = "forced"
    /\ ui.h[c].lookups > 0
    /\ ui.h[c].track = ui.tracks[1]


(***************************************************************************)
(* C21                                                                     *)
(***************************************************************************)

HasDefault(prompts) == \E k \in 1..Len(prompts) : prompts[k].id = "default"

\* C21: whatever the popup's handlers (add prompt, delete prompt, select
\* prompt, save settings) have done, the stored prompts hold a prompt with
\* the id default; a handleDeletePrompt started with default selected
\* ends at once and changes nothing in storage; and the save of a
\* handleDeletePrompt for any other prompt stores a list without that
\* prompt and default as the active prompt.
C21_DefaultPromptStays ==
  /\ [](HasDefault(StoredSettings(store.raw).prompts))
  /\ [][\A o \in OpIds :
          /\ (/\ store.ops[o].pc = "done"
              /\ store'.ops[o].kind = "deletePrompt"
              /\ store'.eventsLeft < store.eventsLeft
              /\ store.promptSelect = "default")
             => /\ store'.ops[o].pc = "done"
                /\ store'.raw = store.raw
                /\ store'.promptOptions = store.promptOptions
          /\ (/\ store.ops[o].kind = "deletePrompt"
              /\ store.ops[o].pc = "write"
              /\ store'.ops[o].pc = "done")
             => /\ store.ops[o].promptId # "default"
                /\ StoredSettings(store'.raw).activePromptId = "default"
                /\ \A k \in 1..Len(StoredSettings(store'.raw).prompts) :
                     StoredSettings(store'.raw).prompts[k].id # store.ops[o].promptId]_vars

\* A handleDeletePrompt has removed a prompt and made default the active
\* one, and the delete button was then clicked again with default selected.
C21_Witness ==
  \E o \in OpIds :
    /\ store.ops[o].kind = "deletePrompt"
    /\ store.ops[o].pc = "done"
    /\ store.ops[o].promptId = "default"
    /\ store.raw.prompts.set
    /\ store.raw.activePromptId = "default"
    /\ Len(store.raw.prompts.value) = 1


(***************************************************************************)
(* C26                                                                     *)
(***************************************************************************)

\* C26: once saveSettings has stored its connections, activeConnectionId,
\* prompts and activePromptId, getSettings on the storage returns exactly
\* these values, with or without keys of the legacy format in storage.
C26_SavedSettingsAreReadBack ==
  [][\A o \in OpIds :
       (/\ store.ops[o].kind = "save"
        /\ store.ops[o].pc = "write"
        /\ store'.ops[o].pc = "done")
       => /\ getSettings(store'.raw).connections = store.ops[o].connections
          /\ getSettings(store'.raw).activeConnectionId = store.ops[o].activeConnectionId
          /\ getSettings(store'.raw).prompts = store.ops[o].prompts
          /\ getSettings(store'.raw).activePromptId = store.ops[o].activePromptId]_vars


(***************************************************************************)
(* C27                                                                     *)
(***************************************************************************)

\* The ids handleAddConnection has made so far.
CreatedIds == {"conn_" \o ToString(n) : n \in 0..store.clock}

StoredIds(raw) ==
  {StoredSettings(raw).connections[k].id :
     k \in 1..Len(StoredSettings(raw).connections)}

\* C27: under every interleaving of the reads and writes of
\* handleAddConnection, handleDeleteConnection and a pending saveSettings,
\* a connection made by handleAddConnection leaves storage only by the
\* save of the handleDeleteConnection that removes it, and comes into
\* storage only by the save of the handleAddConnection that made it, so
\* that no added connection is lost and no removed one comes back.
C27_NoLostUpdate ==
  [][\A id \in CreatedIds :
       /\ (id \in StoredIds(store.raw) /\ id \notin StoredIds(store'.raw))
          => \E o \in OpIds :
               /\ store.ops[o].kind = "delete"
               /\ store.ops[o].pc = "write"
               /\ store'.ops[o].pc # "write"
               /\ store.ops[o].connectionId = id
       /\ (id \notin StoredIds(store.raw) /\ id \in StoredIds(store'.raw))
          => \E o \in OpIds :
               /\ store.ops[o].kind = "add"
               /\ store.ops[o].pc = "write"
               /\ store'.ops[o].pc # "write"
               /\ store.ops[o].activeConnectionId = id]_vars


(***************************************************************************)
(* C25                                                                     *)
(***************************************************************************)

InFlight(c) == ui.h[c].pc = "summarizing"

\* A handler that was started and has not finished.
Unfinished(u, c) == u.h[c].pc \notin {"none", "ended"}

\* C25: in a UI context at most one summarization is in flight at a time
\* and isLoading is true whenever one is; the handler of the second click
\* (c2: Click takes c1 first) makes no summarize call while the handler of
\* the first click has not finished.
C25_OneSummarizationAtATime ==
  /\ [](\A c, d \in ClickIds : InFlight(c) /\ InFlight(d) => c = d)
  /\ [](\A c \in ClickIds : InFlight(c) => ui.isLoading)
  /\ [][(~ui.h["c2"].summarized /\ ui'.h["c2"].summarized)
          => ~Unfinished(ui, "c1")]_vars

(***************************************************************************)
(* C30                                                                     *)
(***************************************************************************)

\* C30: from the reset of the sidebar by a navigation to another video
\* until the next summarize click, the result panel is empty and hidden:
\* nothing of a summarization started before the navigation is put into it
\* or makes it visible.
C30_PanelStaysReset ==
  ui.reset => ui.result = <<>> /\ ui.hidden

====
